---- MODULE Spec2Model ----
(***************************************************************************)
(* Model of the xHCI host controller emulation in devices/src/usb/xhci:    *)
(* the TRB codec and the three rings (rings.rs), the register banks        *)
(* (regs.rs), the device slot (device.rs) and the controller (mod.rs).     *)
(* The HID input backend is vmm/src/input/backend.rs.                      *)
(*                                                                         *)
(* Specifications:                                                         *)
(*   Spec          the controller: command ring, doorbells, USBCMD,        *)
(*                 attach/detach, with a bounded number of devices         *)
(*   SpecSlots     attach_device / detach_device over the full slot table  *)
(*   SpecAlloc     allocate_address / free_address over the full bitmap    *)
(*   SpecRing      a stand-alone CommandRing and TransferRing              *)
(*   SpecEventRing a stand-alone EventRing                                 *)
(*   SpecDeviceSlot a stand-alone XhciDeviceSlot                           *)
(*   SpecTransfer  endpoint rings and endpoint doorbells of the controller *)
(*   SpecOperational write_operational on the controller                   *)
(*   SpecRuntime   a stand-alone RuntimeRegisters bank                     *)
(*   SpecTrb       the type field of a stand-alone TRB                     *)
(*   SpecCodec     as_bytes / from_bytes of a stand-alone TRB              *)
(*   SpecCommands  command TRBs the controller refuses                     *)
(*   SpecStray     doorbells that name nothing to drain                    *)
(*   SpecRegisters reads and writes of all three register banks            *)
(*   SpecRingInit  init of a stand-alone CommandRing and TransferRing      *)
(*   SpecHalt      StopEndpoint / ResetEndpoint on a stand-alone slot      *)
(*   SpecDequeue   a stand-alone EventRing whose dequeue pointer moves     *)
(*   SpecDequeuePtr set_dequeue_ptr / dequeue_ptr over segment tables      *)
(*   SpecResync    SetTrDequeue on a stand-alone slot                      *)
(*   SpecTransferEvent create_transfer_event of a stand-alone ring         *)
(*   SpecAnyTable  EventRing::queue over any segment table                 *)
(*   SpecLocks     the locks taken by vCPU threads and an input thread     *)
(***************************************************************************)
EXTENDS Integers, Sequences, FiniteSets, TLC

\* ------------------------------------------------------------------------
\* Program constants
\* ------------------------------------------------------------------------
XHCI_MAX_SLOTS == 32
XHCI_MAX_INTRS == 8
XHCI_MAX_PORTS == 8
TRB_SIZE == 16

\* TrbType discriminants
EnableSlot == 9
DisableSlot == 10
AddressDevice == 11
ConfigureEndpoint == 12
EvaluateContext == 13
ResetEndpoint == 14
StopEndpoint == 15
SetTrDequeue == 16
ResetDevice == 17
Noop == 23
Normal == 1
TransferEvent == 32
CommandCompletion == 33

\* CompletionCode discriminants
Success == 1
TrbError == 5
NoSlotsAvailable == 9
SlotNotEnabled == 11

\* SlotState discriminants
Disabled == 0
Default == 1
Addressed == 2
Configured == 3

\* USBCMD / USBSTS / PORTSC bits
USBCMD_RS == 1
USBCMD_HCRST == 2
USBSTS_HCH == 1
USBSTS_EINT == 8
USBSTS_PCD == 16
USBSTS_SRE == 1024
USBSTS_CNR == 2048
USBSTS_HCE == 4096
PORTSC_CCS == 1
PORTSC_PP == 512
PORTSC_CSC == 131072
PORTSC_PED == 2
PORTSC_PR == 16
PORTSC_PLS_MASK == 480
PORTSC_LWS == 65536
PORTSC_PEC == 262144
PORTSC_WRC == 524288
PORTSC_OCC == 1048576
PORTSC_PRC == 2097152
PORTSC_PLC == 4194304
PORTSC_CEC == 8388608

\* IMAN bits
IMAN_IP == 1
IMAN_IE == 2

\* Option<T>: None is the empty sequence, Some(x) the sequence holding x
None == <<>>
Some(x) == <<x>>
Unwrap(o) == o[1]

\* Result<u8, XhciError> and Option<u8> as returned to a caller
RetOk(v) == [ok |-> TRUE, val |-> v, err |-> ""]
RetErr(e) == [ok |-> FALSE, val |-> 0, err |-> e]
RetUnit == RetOk(0)

\* ------------------------------------------------------------------------
\* Bounds of the model (not program constants)
\* ------------------------------------------------------------------------
\* commands the guest submits to the controller in one run
MaxCommands == 2
\* devices attached to the controller at the same time
MaxDevices == 2
\* TRBs submitted to a stand-alone ring
MaxRing == 3
\* addresses 1..MaxFree a caller hands to free_address
MaxFree == 2
\* slot ids 1..MaxDetach a caller hands to detach_device
MaxDetach == 2
\* largest segment size of the stand-alone event ring
MaxSegSize == 3
\* events queued on the stand-alone event ring
MaxEvents == 5

\* ------------------------------------------------------------------------
\* Bit arithmetic on unsigned words
\* ------------------------------------------------------------------------
Pow2(n) == 2 ^ n

ShiftR(x, n) == x \div Pow2(n)

RECURSIVE BitAnd(_, _)
BitAnd(a, b) ==
    IF a = 0 \/ b = 0 THEN 0
    ELSE (IF a % 2 = 1 /\ b % 2 = 1 THEN 1 ELSE 0) + 2 * BitAnd(a \div 2, b \div 2)

RECURSIVE BitOr(_, _)
BitOr(a, b) ==
    IF a = 0 THEN b
    ELSE IF b = 0 THEN a
    ELSE (IF a % 2 = 1 \/ b % 2 = 1 THEN 1 ELSE 0) + 2 * BitOr(a \div 2, b \div 2)

RECURSIVE BitXor(_, _)
BitXor(a, b) ==
    IF a = 0 THEN b
    ELSE IF b = 0 THEN a
    ELSE (IF (a % 2) # (b % 2) THEN 1 ELSE 0) + 2 * BitXor(a \div 2, b \div 2)

\* a & !m
BitClear(a, m) == a - BitAnd(a, m)

\* ------------------------------------------------------------------------
\* TRB codec (rings.rs)
\* ------------------------------------------------------------------------
TrbTypes == (1..23) \cup (32..39)

Trb_new(parameter, status, control) ==
    [parameter |-> parameter, status |-> status, control |-> control]

\* #[derive(Default)] for Trb
Trb_default == Trb_new(0, 0, 0)

\* x.to_le_bytes() of an n-byte word: byte i of the array is element i + 1
RECURSIVE to_le_bytes(_, _)
to_le_bytes(x, n) ==
    IF n = 0 THEN <<>> ELSE <<x % 256>> \o to_le_bytes(x \div 256, n - 1)

\* x.to_be_bytes() of an n-byte word
RECURSIVE to_be_bytes(_, _)
to_be_bytes(x, n) ==
    IF n = 0 THEN <<>> ELSE Append(to_be_bytes(x \div 256, n - 1), x % 256)

\* uN::from_le_bytes
RECURSIVE from_le_bytes(_)
from_le_bytes(bytes) ==
    IF bytes = <<>> THEN 0 ELSE Head(bytes) + 256 * from_le_bytes(Tail(bytes))

\* mutant of Trb_as_bytes: the status word is written big-endian
Trb_as_bytes_status_big_endian(t) ==
    to_le_bytes(t.parameter, 8) \o to_be_bytes(t.status, 4) \o to_le_bytes(t.control, 4)

\* Trb::as_bytes: buf[0..8], buf[8..12], buf[12..16]
Trb_as_bytes(t) ==
    to_le_bytes(t.parameter, 8) \o to_le_bytes(t.status, 4) \o to_le_bytes(t.control, 4)

\* Trb::from_bytes
Trb_from_bytes(bytes) ==
    [parameter |-> from_le_bytes(SubSeq(bytes, 1, 8)),
     status    |-> from_le_bytes(SubSeq(bytes, 9, 12)),
     control   |-> from_le_bytes(SubSeq(bytes, 13, 16))]

\* mutant of TrbType_try_from: an unknown code is taken for Noop
TrbType_try_from_coerces_unknown(value) ==
    IF value \in TrbTypes THEN Some(value) ELSE Some(23)

\* TryFrom<u32> for TrbType, then .ok()
TrbType_try_from(value) == IF value \in TrbTypes THEN Some(value) ELSE None

trb_type(trb) == TrbType_try_from(BitAnd(ShiftR(trb.control, 10), 63))

\* mutant of set_trb_type: the old type field is not cleared
set_trb_type_keeps_old_bits(trb, t) ==
    [trb EXCEPT !.control = BitOr(trb.control, t * Pow2(10))]

set_trb_type(trb, t) ==
    [trb EXCEPT !.control = BitOr(BitClear(trb.control, 63 * Pow2(10)), t * Pow2(10))]

cycle_bit(trb) == BitAnd(trb.control, 1) # 0

set_cycle_bit(trb, cycle) ==
    [trb EXCEPT !.control = IF cycle THEN BitOr(trb.control, 1)
                            ELSE BitClear(trb.control, 1)]

completion_code(trb) == BitAnd(ShiftR(trb.status, 24), 255)

\* status & !(0xFF << 24) keeps the low 24 bits of the 32-bit status word
set_completion_code(trb, code) ==
    [trb EXCEPT !.status = BitOr(trb.status % Pow2(24), code * Pow2(24))]

\* (trb.control >> 24) as u8
trb_slot_id(trb) == ShiftR(trb.control, 24) % 256

\* ------------------------------------------------------------------------
\* Command ring (rings.rs)
\* ------------------------------------------------------------------------
CommandRing_new ==
    [base |-> 0, size |-> 256, enqueue |-> 0, cycle |-> TRUE,
     state |-> "Stopped", pending |-> <<>>]

\* CommandRing::init
CommandRing_init(ring, base, size) ==
    [ring EXCEPT !.base = base, !.size = size, !.enqueue = base,
                 !.cycle = TRUE, !.state = "Running"]

CommandRing_queue(ring, trb) ==
    [ring EXCEPT !.pending = Append(ring.pending, trb)]

\* mutant of CommandRing_next: pop_back instead of pop_front
CommandRing_next_pop_back(ring) ==
    IF ring.pending = <<>>
    THEN [ring |-> ring, ret |-> None]
    ELSE [ring |-> [ring EXCEPT !.pending = SubSeq(@, 1, Len(@) - 1)],
          ret  |-> Some(ring.pending[Len(ring.pending)])]

\* pending.pop_front(): the ring afterwards and the value returned
CommandRing_next(ring) ==
    IF ring.pending = <<>>
    THEN [ring |-> ring, ret |-> None]
    ELSE [ring |-> [ring EXCEPT !.pending = Tail(ring.pending)],
          ret  |-> Some(Head(ring.pending))]

create_completion_event(command, slot_id, code) ==
    LET e0 == Trb_new(command.parameter, 0, 0)
        e1 == set_trb_type(e0, CommandCompletion)
        e2 == set_completion_code(e1, code)
        e3 == [e2 EXCEPT !.status = BitOr(e2.status, slot_id)]
    IN  set_cycle_bit(e3, TRUE)

\* ------------------------------------------------------------------------
\* Transfer ring (rings.rs)
\* ------------------------------------------------------------------------
TransferRing_new(ep_id) ==
    [ep_id |-> ep_id, base |-> 0, size |-> 256, enqueue |-> 0, dequeue |-> 0,
     pcs |-> TRUE, ccs |-> TRUE, pending |-> <<>>]

\* mutant of TransferRing_queue: push_front instead of push_back
TransferRing_queue_push_front(ring, trb) ==
    [ring EXCEPT !.pending = <<trb>> \o ring.pending]

TransferRing_queue(ring, trb) ==
    [ring EXCEPT !.pending = Append(ring.pending, trb)]

TransferRing_next(ring) ==
    IF ring.pending = <<>>
    THEN [ring |-> ring, ret |-> None]
    ELSE [ring |-> [ring EXCEPT !.pending = Tail(ring.pending)],
          ret  |-> Some(Head(ring.pending))]

\* Trb::transfer_length
transfer_length(trb) == BitAnd(trb.status, 131071)

\* TransferRing::create_transfer_event; the method borrows the ring shared
\* and reads none of its fields
TransferRing_create_transfer_event(ring, trb, code, length) ==
    LET e0 == Trb_new(trb.parameter, 0, 0)
        e1 == set_trb_type(e0, TransferEvent)
        e2 == set_completion_code(e1, code)
        e3 == [e2 EXCEPT !.status = BitOr(e2.status, length)]
    IN  set_cycle_bit(e3, TRUE)

TransferRing_init(ring, base, size) ==
    [ring EXCEPT !.base = base, !.size = size, !.enqueue = base,
                 !.dequeue = base, !.pcs = TRUE, !.ccs = TRUE]

\* ------------------------------------------------------------------------
\* Event ring (rings.rs)
\* ------------------------------------------------------------------------
EventRingSegment_new(base, size) == [base |-> base, size |-> size]

EventRing_new ==
    [segments |-> <<>>, segment_idx |-> 0, dequeue_idx |-> 0,
     cycle |-> TRUE, pending |-> <<>>]

EventRing_set_segments(ring, segments) ==
    [ring EXCEPT !.segments = segments, !.segment_idx = 0, !.dequeue_idx = 0]

\* EventRing::dequeue_ptr
EventRing_dequeue_ptr(ring) ==
    IF ring.segment_idx < Len(ring.segments)
    THEN ring.segments[ring.segment_idx + 1].base + ring.dequeue_idx * TRB_SIZE
    ELSE 0

\* mutant of EventRing_set_dequeue_ptr: the search does not stop at the first
\* segment that contains ptr, so the last one wins
EventRing_set_dequeue_ptr_last_match(ring, ptr) ==
    LET holds == {idx \in 0..(Len(ring.segments) - 1) :
                    /\ ptr >= ring.segments[idx + 1].base
                    /\ ptr < ring.segments[idx + 1].base
                              + ring.segments[idx + 1].size * TRB_SIZE}
    IN  IF holds = {} THEN ring
        ELSE LET idx == CHOOSE i \in holds : \A j \in holds : i >= j
             IN  [ring EXCEPT !.segment_idx = idx,
                              !.dequeue_idx = (ptr - ring.segments[idx + 1].base)
                                                \div TRB_SIZE]

\* EventRing::set_dequeue_ptr: the first segment that contains ptr becomes the
\* current one and the index is the TRB offset of ptr in it; a pointer in no
\* segment changes nothing
EventRing_set_dequeue_ptr(ring, ptr) ==
    LET holds == {idx \in 0..(Len(ring.segments) - 1) :
                    /\ ptr >= ring.segments[idx + 1].base
                    /\ ptr < ring.segments[idx + 1].base
                              + ring.segments[idx + 1].size * TRB_SIZE}
    IN  IF holds = {} THEN ring
        ELSE LET idx == CHOOSE i \in holds : \A j \in holds : i <= j
             IN  [ring EXCEPT !.segment_idx = idx,
                              !.dequeue_idx = (ptr - ring.segments[idx + 1].base)
                                                \div TRB_SIZE]

\* mutant of EventRing_queue: push_front instead of push_back
EventRing_queue_push_front(ring, event) ==
    LET stamped == set_cycle_bit(event, ring.cycle)
        pushed  == [ring EXCEPT !.pending = <<stamped>> \o ring.pending]
    IN  IF ring.segment_idx < Len(ring.segments)
        THEN LET segment == ring.segments[ring.segment_idx + 1]
             IN  IF ring.dequeue_idx >= segment.size - 1
                 THEN [pushed EXCEPT
                         !.dequeue_idx = 0,
                         !.segment_idx = (ring.segment_idx + 1) % Len(ring.segments),
                         !.cycle = ~ring.cycle]
                 ELSE pushed
        ELSE pushed

\* segments is a Vec indexed from 0; the sequence is indexed from 1.
\* segment.size as usize - 1 is computed on usize: for size 0 a build without
\* overflow checks wraps to usize::MAX, which dequeue_idx never reaches (a
\* build with overflow checks panics there); every specification below
\* installs segments of size >= 1.
EventRing_queue(ring, event) ==
    LET stamped == set_cycle_bit(event, ring.cycle)
        pushed  == [ring EXCEPT !.pending = Append(ring.pending, stamped)]
    IN  IF ring.segment_idx < Len(ring.segments)
        THEN LET segment == ring.segments[ring.segment_idx + 1]
             IN  IF ring.dequeue_idx >= segment.size - 1
                 THEN [pushed EXCEPT
                         !.dequeue_idx = 0,
                         !.segment_idx = (ring.segment_idx + 1) % Len(ring.segments),
                         !.cycle = ~ring.cycle]
                 ELSE pushed
        ELSE pushed

\* EventRing::queue for any segment table: the outcomes a build can produce.
\* For a current segment of size 0, segment.size as usize - 1 underflows
\* after the event was pushed: a build with overflow checks panics there, a
\* build without them wraps to usize::MAX, which dequeue_idx does not reach,
\* so nothing advances.
EventRing_queue_outcomes(ring, event) ==
    IF ring.segment_idx < Len(ring.segments)
       /\ ring.segments[ring.segment_idx + 1].size = 0
    THEN LET pushed == [ring EXCEPT !.pending =
                          Append(ring.pending, set_cycle_bit(event, ring.cycle))]
         IN  {[ring |-> pushed, panic |-> TRUE], [ring |-> pushed, panic |-> FALSE]}
    ELSE {[ring |-> EventRing_queue(ring, event), panic |-> FALSE]}

\* ------------------------------------------------------------------------
\* Device slot (device.rs)
\* ------------------------------------------------------------------------
\* SlotContext::state
SlotContext_state(slot_state) ==
    LET s == BitAnd(slot_state, 15) IN IF s \in {0, 1, 2, 3} THEN s ELSE Disabled

XhciDeviceSlot_new(slot_id) ==
    [slot_id |-> slot_id, slot_state |-> 0, usb_dev_addr |-> 0,
     transfer_rings |-> [ep \in 0..31 |-> None], device_resets |-> 0,
     device_transfers |-> 0]

Slot_set_state(slot, st) ==
    [slot EXCEPT !.slot_state = BitOr(BitAnd(slot.slot_state, 240), st)]

Slot_state(slot) == SlotContext_state(slot.slot_state)

Slot_set_address(slot, addr) == [slot EXCEPT !.usb_dev_addr = addr]

Slot_address(slot) == slot.usb_dev_addr

\* mutant of TransferRing_set_dequeue_ptr: the cycle state is not stored
TransferRing_set_dequeue_ptr_keeps_ccs(ring, ptr, cycle) ==
    [ring EXCEPT !.dequeue = ptr]

TransferRing_set_dequeue_ptr(ring, ptr, cycle) ==
    [ring EXCEPT !.dequeue = ptr, !.ccs = cycle]

\* mutant of Slot_ring_ep: the endpoint id is reduced modulo the ring count
Slot_ring_ep_wraps_ep_id(slot, ep_id) ==
    IF slot.transfer_rings[ep_id % 32] = None THEN slot
    ELSE [slot EXCEPT !.transfer_rings[ep_id % 32] =
              Some([Unwrap(@) EXCEPT !.pending = <<>>])]

\* XhciDeviceSlot::ring_ep: drains the endpoint's ring, handling nothing
Slot_ring_ep(slot, ep_id) ==
    IF ep_id >= 32 THEN slot
    ELSE IF slot.transfer_rings[ep_id] = None THEN slot
    ELSE [slot EXCEPT !.transfer_rings[ep_id] =
              Some([Unwrap(@) EXCEPT !.pending = <<>>])]

\* XhciDeviceSlot::init_ep_ring
Slot_init_ep_ring(slot, ep_id, base, size) ==
    IF ep_id >= 32 THEN slot
    ELSE [slot EXCEPT !.transfer_rings[ep_id] =
            Some(TransferRing_init(TransferRing_new(ep_id), base, size))]

\* mutant of Slot_handle_command: ResetDevice resets the device and keeps
\* the slot state
Slot_handle_command_reset_keeps_state(slot, trb) ==
    LET t == trb_type(trb) IN
    IF t = Some(AddressDevice)
    THEN [slot |-> Slot_set_address(Slot_set_state(slot, Addressed), 1),
          code |-> Success]
    ELSE IF t \in {Some(ConfigureEndpoint), Some(EvaluateContext),
                   Some(ResetEndpoint), Some(StopEndpoint), Some(SetTrDequeue)}
    THEN [slot |-> slot, code |-> Success]
    ELSE IF t = Some(ResetDevice)
    THEN [slot |-> [slot EXCEPT !.device_resets = @ + 1], code |-> Success]
    ELSE [slot |-> slot, code |-> TrbError]

\* XhciDeviceSlot::handle_command: the slot afterwards and the completion code
Slot_handle_command(slot, trb) ==
    LET t == trb_type(trb) IN
    IF t = Some(AddressDevice)
    THEN [slot |-> Slot_set_address(Slot_set_state(slot, Addressed), 1),
          code |-> Success]
    ELSE IF t \in {Some(ConfigureEndpoint), Some(EvaluateContext),
                   Some(ResetEndpoint), Some(StopEndpoint)}
    THEN [slot |-> slot, code |-> Success]
    ELSE IF t = Some(SetTrDequeue)
    THEN LET ep_id == BitAnd(ShiftR(trb.control, 16), 31)
         IN  [slot |-> IF slot.transfer_rings[ep_id] = None THEN slot
                       ELSE [slot EXCEPT !.transfer_rings[ep_id] =
                               Some(TransferRing_set_dequeue_ptr(Unwrap(@),
                                      BitClear(trb.parameter, 15),
                                      BitAnd(trb.parameter, 1) # 0))],
              code |-> Success]
    ELSE IF t = Some(ResetDevice)
    THEN [slot |-> Slot_set_state([slot EXCEPT !.device_resets = @ + 1], Default),
          code |-> Success]
    ELSE [slot |-> slot, code |-> TrbError]

\* ------------------------------------------------------------------------
\* Controller (mod.rs): pure parts
\* ------------------------------------------------------------------------
\* slots.len() and doorbells.len()
SlotsLen == XHCI_MAX_SLOTS + 1

\* mutant of allocate_address: the exclusive range 1..127
allocate_address_exclusive_range(bitmap) ==
    LET free == {addr \in 1..126 : addr \notin bitmap} IN
    IF free = {} THEN [bitmap |-> bitmap, ret |-> None]
    ELSE LET addr == CHOOSE a \in free : \A b \in free : a <= b
         IN  [bitmap |-> bitmap \cup {addr}, ret |-> Some(addr)]

\* address_bitmap is the set of the bit positions that are set in the u128
allocate_address(bitmap) ==
    LET free == {addr \in 1..127 : addr \notin bitmap} IN
    IF free = {} THEN [bitmap |-> bitmap, ret |-> None]
    ELSE LET addr == CHOOSE a \in free : \A b \in free : a <= b
         IN  [bitmap |-> bitmap \cup {addr}, ret |-> Some(addr)]

\* mutant of free_address: no upper bound, the shift amount wrapping at 128
free_address_unbounded(bitmap, addr) ==
    IF addr > 0 THEN bitmap \ {addr % 128} ELSE bitmap

free_address(bitmap, addr) ==
    IF addr > 0 /\ addr <= 127 THEN bitmap \ {addr} ELSE bitmap

\* mutant of find_free_slot: index 0 is not skipped
find_free_slot_from_zero(slot_table) ==
    LET free == {i \in 0..(SlotsLen - 1) : slot_table[i] = None} IN
    IF free = {} THEN RetErr("NoFreeSlots")
    ELSE RetOk(CHOOSE i \in free : \A j \in free : i <= j)

find_free_slot(slot_table) ==
    LET free == {i \in 0..(SlotsLen - 1) : i > 0 /\ slot_table[i] = None} IN
    IF free = {} THEN RetErr("NoFreeSlots")
    ELSE RetOk(CHOOSE i \in free : \A j \in free : i <= j)

\* mutant of handle_command: AddressDevice allocates the address before it
\* looks the slot up
handle_command_allocates_first(c, trb) ==
    LET t == trb_type(trb)
        slot_id == trb_slot_id(trb)
    IN
    IF t = Some(EnableSlot)
    THEN LET r == find_free_slot(c.slots)
         IN  IF r.ok THEN [c |-> c, code |-> Success, slot_id |-> r.val]
             ELSE [c |-> c, code |-> NoSlotsAvailable, slot_id |-> 0]
    ELSE IF t = Some(DisableSlot)
    THEN IF slot_id < SlotsLen
         THEN [c |-> [c EXCEPT !.slots[slot_id] = None],
               code |-> Success, slot_id |-> slot_id]
         ELSE [c |-> c, code |-> SlotNotEnabled, slot_id |-> 0]
    ELSE IF t = Some(AddressDevice)
    THEN LET a == allocate_address(c.address_bitmap) IN
         IF slot_id < SlotsLen /\ c.slots[slot_id] # None
         THEN LET h == Slot_handle_command(Unwrap(c.slots[slot_id]), trb)
              IN  [c |-> [c EXCEPT !.address_bitmap = a.bitmap,
                                   !.slots[slot_id] = Some(h.slot)],
                   code |-> h.code, slot_id |-> slot_id]
         ELSE [c |-> [c EXCEPT !.address_bitmap = a.bitmap],
               code |-> SlotNotEnabled, slot_id |-> 0]
    ELSE IF t = Some(ConfigureEndpoint)
    THEN IF slot_id < SlotsLen /\ c.slots[slot_id] # None
         THEN LET h == Slot_handle_command(Unwrap(c.slots[slot_id]), trb)
              IN  [c |-> [c EXCEPT !.slots[slot_id] = Some(h.slot)],
                   code |-> h.code, slot_id |-> slot_id]
         ELSE [c |-> c, code |-> SlotNotEnabled, slot_id |-> 0]
    ELSE IF t = Some(Noop)
    THEN [c |-> c, code |-> Success, slot_id |-> 0]
    ELSE [c |-> c, code |-> TrbError, slot_id |-> 0]

\* XhciController::handle_command on c = [slots, address_bitmap, ...]:
\* the controller afterwards, the completion code and the slot id reported
handle_command(c, trb) ==
    LET t == trb_type(trb)
        slot_id == trb_slot_id(trb)
    IN
    IF t = Some(EnableSlot)
    THEN LET r == find_free_slot(c.slots)
         IN  IF r.ok THEN [c |-> c, code |-> Success, slot_id |-> r.val]
             ELSE [c |-> c, code |-> NoSlotsAvailable, slot_id |-> 0]
    ELSE IF t = Some(DisableSlot)
    THEN IF slot_id < SlotsLen
         THEN [c |-> [c EXCEPT !.slots[slot_id] = None],
               code |-> Success, slot_id |-> slot_id]
         ELSE [c |-> c, code |-> SlotNotEnabled, slot_id |-> 0]
    ELSE IF t = Some(AddressDevice)
    THEN IF slot_id < SlotsLen /\ c.slots[slot_id] # None
         THEN LET a == allocate_address(c.address_bitmap)
                  h == Slot_handle_command(Unwrap(c.slots[slot_id]), trb)
              IN  [c |-> [c EXCEPT !.address_bitmap = a.bitmap,
                                   !.slots[slot_id] = Some(h.slot)],
                   code |-> h.code, slot_id |-> slot_id]
         ELSE [c |-> c, code |-> SlotNotEnabled, slot_id |-> 0]
    ELSE IF t = Some(ConfigureEndpoint)
    THEN IF slot_id < SlotsLen /\ c.slots[slot_id] # None
         THEN LET h == Slot_handle_command(Unwrap(c.slots[slot_id]), trb)
              IN  [c |-> [c EXCEPT !.slots[slot_id] = Some(h.slot)],
                   code |-> h.code, slot_id |-> slot_id]
         ELSE [c |-> c, code |-> SlotNotEnabled, slot_id |-> 0]
    ELSE IF t = Some(Noop)
    THEN [c |-> c, code |-> Success, slot_id |-> 0]
    ELSE [c |-> c, code |-> TrbError, slot_id |-> 0]

\* the while-let loop of process_command_ring on
\* c = [slots, address_bitmap, cmd_ring, event_rings]
RECURSIVE process_loop(_)
process_loop(c) ==
    LET n == CommandRing_next(c.cmd_ring) IN
    IF n.ret = None THEN c
    ELSE LET trb == Unwrap(n.ret)
             h == handle_command([c EXCEPT !.cmd_ring = n.ring], trb)
             event == create_completion_event(trb, h.slot_id, h.code)
         IN  process_loop([h.c EXCEPT !.event_rings[0] = EventRing_queue(@, event)])

\* mutant of process_command_ring: the controller state is not tested
process_command_ring_any_state(st, c) == process_loop(c)

process_command_ring(st, c) ==
    IF st # "Running" THEN c ELSE process_loop(c)

\* ------------------------------------------------------------------------
\* Operational registers (regs.rs)
\* ------------------------------------------------------------------------
OperationalRegisters_default ==
    [usbcmd |-> 0, usbsts |-> USBSTS_HCH, pgsz |-> 4096, dnctrl |-> 0,
     crcr |-> 0, dcbaap |-> 0, config |-> 0]

PortRegister_default == [portsc |-> 0, portpmsc |-> 0, portli |-> 0]

\* mutant of handle_usbcmd: a reset leaves CRCR as it is
handle_usbcmd_reset_keeps_crcr(op, st, value) ==
    IF BitAnd(value, USBCMD_HCRST) # 0
    THEN [op |-> [op EXCEPT !.usbsts = BitOr(USBSTS_HCH, USBSTS_CNR), !.dcbaap = 0],
          state |-> "Halted"]
    ELSE IF BitAnd(BitXor(value, op.usbcmd), USBCMD_RS) # 0
    THEN IF BitAnd(value, USBCMD_RS) # 0
         THEN [op |-> [op EXCEPT !.usbsts = USBSTS_CNR, !.usbcmd = value],
               state |-> "Running"]
         ELSE [op |-> [op EXCEPT !.usbsts = USBSTS_HCH, !.usbcmd = value],
               state |-> "Halted"]
    ELSE [op |-> [op EXCEPT !.usbcmd = value], state |-> st]

\* mutant of handle_usbcmd: a start leaves USBSTS as it is
handle_usbcmd_run_keeps_usbsts(op, st, value) ==
    IF BitAnd(value, USBCMD_HCRST) # 0
    THEN [op |-> [op EXCEPT !.usbsts = BitOr(USBSTS_HCH, USBSTS_CNR),
                            !.crcr = 0, !.dcbaap = 0],
          state |-> "Halted"]
    ELSE IF BitAnd(BitXor(value, op.usbcmd), USBCMD_RS) # 0
    THEN IF BitAnd(value, USBCMD_RS) # 0
         THEN [op |-> [op EXCEPT !.usbcmd = value], state |-> "Running"]
         ELSE [op |-> [op EXCEPT !.usbsts = USBSTS_HCH, !.usbcmd = value],
               state |-> "Halted"]
    ELSE [op |-> [op EXCEPT !.usbcmd = value], state |-> st]

\* OperationalRegisters::handle_usbcmd: the bank and the controller state
handle_usbcmd(op, st, value) ==
    IF BitAnd(value, USBCMD_HCRST) # 0
    THEN [op |-> [op EXCEPT !.usbsts = BitOr(USBSTS_HCH, USBSTS_CNR),
                            !.crcr = 0, !.dcbaap = 0],
          state |-> "Halted"]
    ELSE IF BitAnd(BitXor(value, op.usbcmd), USBCMD_RS) # 0
    THEN IF BitAnd(value, USBCMD_RS) # 0
         THEN [op |-> [op EXCEPT !.usbsts = USBSTS_CNR, !.usbcmd = value],
               state |-> "Running"]
         ELSE [op |-> [op EXCEPT !.usbsts = USBSTS_HCH, !.usbcmd = value],
               state |-> "Halted"]
    ELSE [op |-> [op EXCEPT !.usbcmd = value], state |-> st]

PortRegister_set_connected(port, connected) ==
    LET new_val == IF connected
                   THEN BitOr(BitOr(BitOr(BitOr(port.portsc, PORTSC_CCS), PORTSC_CSC),
                                    PORTSC_PP), 4 * Pow2(10))
                   ELSE BitClear(port.portsc, PORTSC_CCS)
    IN  [port EXCEPT !.portsc = BitOr(new_val, PORTSC_CSC)]

\* OperationalRegisters::set_port_connected on the port array
set_port_connected(port_regs, port, connected) ==
    IF port >= XHCI_MAX_PORTS THEN port_regs
    ELSE [port_regs EXCEPT ![port] = PortRegister_set_connected(@, connected)]

\* PortRegister::write.  The values written in this model are below 2^31, so
\* the warm-port-reset bit (bit 31) of the written value is always clear.
PortRegister_write(port, offset, value) ==
    IF offset = 0
    THEN LET clear_mask == BitAnd(value, PORTSC_CSC + PORTSC_PEC + PORTSC_WRC
                                  + PORTSC_OCC + PORTSC_PRC + PORTSC_PLC + PORTSC_CEC)
             new_val == BitOr(BitClear(port.portsc, clear_mask),
                              BitAnd(value, PORTSC_PED + PORTSC_PR + PORTSC_PLS_MASK
                                     + PORTSC_LWS + PORTSC_PP))
         IN  [port EXCEPT !.portsc = new_val]
    ELSE IF offset = 4 THEN [port EXCEPT !.portpmsc = value]
    ELSE IF offset = 8 THEN [port EXCEPT !.portli = value]
    ELSE port

PortRegister_read(port, offset) ==
    IF offset = 0 THEN port.portsc
    ELSE IF offset = 4 THEN port.portpmsc
    ELSE IF offset = 8 THEN port.portli
    ELSE 0

\* OperationalRegisters::read
OperationalRegisters_read(op, port_regs, offset) ==
    IF offset = 0 THEN op.usbcmd
    ELSE IF offset = 4 THEN op.usbsts
    ELSE IF offset = 8 THEN op.pgsz
    ELSE IF offset = 12 THEN op.dnctrl
    ELSE IF offset \in 16..23 THEN op.crcr
    ELSE IF offset \in 48..55 THEN op.dcbaap
    ELSE IF offset = 56 THEN op.config
    ELSE IF offset >= 1024
    THEN LET port_idx == (offset - 1024) \div 16
             port_offset == (offset - 1024) % 16
         IN  IF port_idx < XHCI_MAX_PORTS
             THEN PortRegister_read(port_regs[port_idx], port_offset)
             ELSE 0
    ELSE 0

\* CapabilityRegisters::new(XHCI_MAX_SLOTS, XHCI_MAX_INTRS, XHCI_MAX_PORTS);
\* the capability registers never change
CapabilityRegisters_new ==
    [hciversion |-> 256,
     hcsparams1 |-> XHCI_MAX_SLOTS + XHCI_MAX_INTRS * Pow2(8) + XHCI_MAX_PORTS * Pow2(24),
     hcsparams2 |-> 0, hcsparams3 |-> 0, hccparams1 |-> 0,
     dboff |-> 4096, rtsoff |-> 8192, hccparams2 |-> 0]

\* CapabilityRegisters::read
CapabilityRegisters_read(cap, offset) ==
    IF offset = 0 THEN cap.hciversion
    ELSE IF offset = 2
    THEN BitOr(ShiftR(cap.hciversion, 8), cap.hciversion * Pow2(16))
    ELSE IF offset = 4 THEN cap.hcsparams1
    ELSE IF offset = 8 THEN cap.hcsparams2
    ELSE IF offset = 12 THEN cap.hcsparams3
    ELSE IF offset = 16 THEN cap.hccparams1
    ELSE IF offset = 20 THEN cap.dboff
    ELSE IF offset = 24 THEN cap.rtsoff
    ELSE IF offset = 28 THEN cap.hccparams2
    ELSE 0

\* mutant of OperationalRegisters_write: USBSTS is stored like a plain
\* read/write register
OperationalRegisters_write_plain_usbsts(op, port_regs, st, offset, value) ==
    IF offset = 0
    THEN LET r == handle_usbcmd(op, st, value)
         IN  [op |-> r.op, ports |-> port_regs, state |-> r.state]
    ELSE IF offset = 4
    THEN [op |-> [op EXCEPT !.usbsts = value], ports |-> port_regs, state |-> st]
    ELSE IF offset = 12
    THEN [op |-> [op EXCEPT !.dnctrl = value], ports |-> port_regs, state |-> st]
    ELSE IF offset \in 16..23
    THEN [op |-> [op EXCEPT !.crcr = BitOr(BitClear(op.crcr, 255), BitAnd(value, 255))],
          ports |-> port_regs, state |-> st]
    ELSE IF offset \in 48..55
    THEN [op |-> [op EXCEPT !.dcbaap = value], ports |-> port_regs, state |-> st]
    ELSE IF offset = 56
    THEN [op |-> [op EXCEPT !.config = value], ports |-> port_regs, state |-> st]
    ELSE IF offset >= 1024
    THEN LET port_idx == (offset - 1024) \div 16
             port_offset == (offset - 1024) % 16
         IN  [op |-> op,
              ports |-> IF port_idx < XHCI_MAX_PORTS
                        THEN [port_regs EXCEPT ![port_idx] =
                                PortRegister_write(@, port_offset, value)]
                        ELSE port_regs,
              state |-> st]
    ELSE [op |-> op, ports |-> port_regs, state |-> st]

\* OperationalRegisters::write: the bank, the ports and the controller state
OperationalRegisters_write(op, port_regs, st, offset, value) ==
    IF offset = 0
    THEN LET r == handle_usbcmd(op, st, value)
         IN  [op |-> r.op, ports |-> port_regs, state |-> r.state]
    ELSE IF offset = 4
    THEN LET clear_bits == BitAnd(value, USBSTS_EINT + USBSTS_PCD + USBSTS_SRE
                                  + USBSTS_HCE)
         IN  [op |-> [op EXCEPT !.usbsts = BitClear(op.usbsts, clear_bits)],
              ports |-> port_regs, state |-> st]
    ELSE IF offset = 12
    THEN [op |-> [op EXCEPT !.dnctrl = value], ports |-> port_regs, state |-> st]
    ELSE IF offset \in 16..23
    THEN [op |-> [op EXCEPT !.crcr = BitOr(BitClear(op.crcr, 255), BitAnd(value, 255))],
          ports |-> port_regs, state |-> st]
    ELSE IF offset \in 48..55
    THEN [op |-> [op EXCEPT !.dcbaap = value], ports |-> port_regs, state |-> st]
    ELSE IF offset = 56
    THEN [op |-> [op EXCEPT !.config = value], ports |-> port_regs, state |-> st]
    ELSE IF offset >= 1024
    THEN LET port_idx == (offset - 1024) \div 16
             port_offset == (offset - 1024) % 16
         IN  [op |-> op,
              ports |-> IF port_idx < XHCI_MAX_PORTS
                        THEN [port_regs EXCEPT ![port_idx] =
                                PortRegister_write(@, port_offset, value)]
                        ELSE port_regs,
              state |-> st]
    ELSE [op |-> op, ports |-> port_regs, state |-> st]

\* ------------------------------------------------------------------------
\* Runtime registers (regs.rs)
\* ------------------------------------------------------------------------
InterrupterRegister_default ==
    [iman |-> 0, imod |-> 0, erstsz |-> 0, erstba |-> 0, erdp |-> 0]

\* #[derive(Default)]: the interrupter vector is empty
RuntimeRegisters_default == [mfindex |-> 0, interrupters |-> <<>>]

\* RuntimeRegisters::new: one register set per interrupter; interrupter n is
\* the element n + 1 of the sequence
RuntimeRegisters_new ==
    [mfindex |-> 0,
     interrupters |-> [n \in 1..XHCI_MAX_INTRS |-> InterrupterRegister_default]]

InterrupterRegister_read(intr, offset) ==
    IF offset = 0 THEN intr.iman
    ELSE IF offset = 4 THEN intr.imod
    ELSE IF offset = 8 THEN intr.erstsz
    ELSE IF offset = 16 THEN intr.erstba
    ELSE IF offset = 24 THEN intr.erdp
    ELSE 0

InterrupterRegister_write(intr, offset, value) ==
    IF offset = 0
    THEN [intr EXCEPT !.iman = BitOr(BitClear(intr.iman, IMAN_IP),
                                     BitAnd(value, IMAN_IE))]
    ELSE IF offset = 4 THEN [intr EXCEPT !.imod = value]
    ELSE IF offset = 8 THEN [intr EXCEPT !.erstsz = value]
    ELSE IF offset = 16 THEN [intr EXCEPT !.erstba = value]
    ELSE IF offset = 24 THEN [intr EXCEPT !.erdp = value]
    ELSE intr

RuntimeRegisters_read(rt, offset) ==
    IF offset = 0 THEN rt.mfindex
    ELSE IF offset >= 32
    THEN LET intr_idx == (offset - 32) \div 32
             intr_offset == (offset - 32) % 32
         IN  IF intr_idx < Len(rt.interrupters)
             THEN InterrupterRegister_read(rt.interrupters[intr_idx + 1], intr_offset)
             ELSE 0
    ELSE 0

\* mutant of RuntimeRegisters_write: a write at offset 0 stores MFINDEX
RuntimeRegisters_write_stores_mfindex(rt, offset, value) ==
    IF offset = 0 THEN [rt EXCEPT !.mfindex = value]
    ELSE IF offset >= 32
    THEN LET intr_idx == (offset - 32) \div 32
             intr_offset == (offset - 32) % 32
         IN  IF intr_idx < Len(rt.interrupters)
             THEN [rt EXCEPT !.interrupters[intr_idx + 1] =
                     InterrupterRegister_write(@, intr_offset, value)]
             ELSE rt
    ELSE rt

RuntimeRegisters_write(rt, offset, value) ==
    IF offset = 0 THEN rt
    ELSE IF offset >= 32
    THEN LET intr_idx == (offset - 32) \div 32
             intr_offset == (offset - 32) % 32
         IN  IF intr_idx < Len(rt.interrupters)
             THEN [rt EXCEPT !.interrupters[intr_idx + 1] =
                     InterrupterRegister_write(@, intr_offset, value)]
             ELSE rt
    ELSE rt

\* ------------------------------------------------------------------------
\* Locks (mod.rs, device.rs, vmm/src/input/backend.rs)
\* ------------------------------------------------------------------------
\* The controller's methods take &mut self: a caller enters one only with
\* exclusive access to the controller, which is the "controller" lock here.
\* Table slots are Arc<Mutex<XhciDeviceSlot>> (mod.rs:59), "dslot" is a slot
\* outside the table, devices are Arc<Mutex<dyn UsbDevice>> (device.rs:326);
\* the keyboard is the device of slot 1 and of dslot, the mouse of slot 2.
LockSlots == {1, 2}
VcpuThreads == {"vcpu0", "vcpu1"}
InputThreads == {"input"}
Threads == VcpuThreads \cup InputThreads
SlotLock(slot_id) == IF slot_id = 1 THEN "slot1" ELSE "slot2"
Locks == {"controller", "slot1", "slot2", "dslot", "keyboard", "mouse"}
LockRank(l) ==
    IF l = "controller" THEN 0
    ELSE IF l \in {"slot1", "slot2", "dslot"} THEN 1
    ELSE 2
Unlocked == "unlocked"

Acq(l) == [k |-> "acq", l |-> l]
Rel(l) == [k |-> "rel", l |-> l]
\* self.slots[slot_id] = None
ClearSlot(slot_id) == [k |-> "clear", l |-> SlotLock(slot_id)]
\* self.slots[find_free_slot()] = Some(Arc::new(Mutex::new(slot)))
FillSlot == [k |-> "fill", l |-> "controller"]

\* XhciController::ring_doorbell with slot_id > 0, and process_transfer:
\* slot.lock() inside the method, the guard dropped at the end of the if-let
ring_doorbell_locks(slot_id) ==
    <<Acq("controller"), Acq(SlotLock(slot_id)), Rel(SlotLock(slot_id)),
      Rel("controller")>>

\* XhciController::handle_command: the AddressDevice and ConfigureEndpoint
\* arms lock the slot and call its handle_command, whose arms for these two
\* types lock nothing; DisableSlot clears the table entry; every other type
\* takes no lock
handle_command_locks(ty, slot_id) ==
    IF ty \in {AddressDevice, ConfigureEndpoint}
    THEN <<Acq(SlotLock(slot_id)), Rel(SlotLock(slot_id))>>
    ELSE IF ty = DisableSlot
    THEN <<ClearSlot(slot_id)>>
    ELSE <<>>

\* XhciController::ring_doorbell(0, _) and process_command_ring: every command
\* of the batch is handled before the method returns
MaxBatch == 2
RECURSIVE process_command_ring_body(_)
process_command_ring_body(cmds) ==
    IF cmds = <<>> THEN <<>>
    ELSE handle_command_locks(Head(cmds).ty, Head(cmds).slot_id)
         \o process_command_ring_body(Tail(cmds))
process_command_ring_locks(cmds) ==
    <<Acq("controller")>> \o process_command_ring_body(cmds) \o <<Rel("controller")>>

\* XhciController::detach_device
detach_device_locks(slot_id) ==
    <<Acq("controller"), Acq(SlotLock(slot_id)), Rel(SlotLock(slot_id)),
      ClearSlot(slot_id), Rel("controller")>>

\* XhciController::attach_device
attach_device_locks == <<Acq("controller"), FillSlot, Rel("controller")>>

\* XhciDeviceSlot::handle_command on a locked slot: the ResetDevice arm locks
\* the device and calls its reset, the other arms lock nothing
Slot_handle_command_locks(ty) ==
    IF ty = ResetDevice
    THEN <<Acq("dslot"), Acq("keyboard"), Rel("keyboard"), Rel("dslot")>>
    ELSE <<Acq("dslot"), Rel("dslot")>>

\* mutant of inject_locks: the input thread rings the slot's endpoint while it
\* still holds the device
inject_locks_rings_slot(device) ==
    <<Acq(device), Acq("dslot"), Rel("dslot"), Rel(device)>>

\* UsbHidBackend::inject_keyboard and inject_mouse: device.lock(), then
\* queue_report, which locks nothing
inject_locks(device) == <<Acq(device), Rel(device)>>

Idle == [op |-> "idle", prog |-> <<>>, pc |-> 1]
Threads_new ==
    [owner |-> [l \in Locks |-> Unlocked],
     at |-> [t \in Threads |-> Idle],
     present |-> {}]

\* ------------------------------------------------------------------------
\* State
\* ------------------------------------------------------------------------
VARIABLES
    state,           \* XhciController.state
    op_regs,         \* XhciController.op_regs without the ports
    ports,           \* XhciController.op_regs.ports
    doorbells,       \* XhciController.doorbells[i].target
    slots,           \* XhciController.slots
    cmd_ring,        \* XhciController.cmd_ring
    event_rings,     \* XhciController.event_rings
    address_bitmap,  \* XhciController.address_bitmap
    rt_regs,         \* XhciController.rt_regs
    cring,           \* a stand-alone CommandRing
    tring,           \* a stand-alone TransferRing
    ering,           \* a stand-alone EventRing
    dslot,           \* a stand-alone XhciDeviceSlot
    runtime,         \* a stand-alone RuntimeRegisters
    codec,           \* a stand-alone Trb and the byte buffer of its encoding
    submitted,       \* the TRBs a caller passed to queue of cring and of tring
    returned,        \* the TRBs next handed back from cring and from tring
    threads,         \* who owns each lock, and where each thread stands
    last             \* the last call made: its name, arguments and result

ctrlVars == <<state, op_regs, ports, doorbells, slots, cmd_ring, event_rings,
              address_bitmap, rt_regs>>
ringVars == <<cring, tring, submitted, returned, threads>>
aloneVars == <<dslot, runtime, codec>>
vars == <<state, op_regs, ports, doorbells, slots, cmd_ring, event_rings,
          address_bitmap, rt_regs, cring, tring, ering, dslot, runtime, codec,
          submitted, returned, threads, last>>

Call(op, args, ret) == [op |-> op, args |-> args, ret |-> ret]

\* XhciController::new, and freshly constructed stand-alone rings
Init ==
    /\ state = "Halted"
    /\ op_regs = OperationalRegisters_default
    /\ ports = [p \in 0..(XHCI_MAX_PORTS - 1) |-> PortRegister_default]
    /\ doorbells = [i \in 0..XHCI_MAX_SLOTS |-> 0]
    /\ slots = [i \in 0..XHCI_MAX_SLOTS |-> None]
    /\ cmd_ring = CommandRing_new
    /\ event_rings = [i \in 0..(XHCI_MAX_INTRS - 1) |-> EventRing_new]
    /\ address_bitmap = {}
    /\ rt_regs = RuntimeRegisters_default
    /\ cring = CommandRing_new
    /\ tring = TransferRing_new(1)
    /\ ering = EventRing_new
    /\ dslot = XhciDeviceSlot_new(1)
    /\ runtime = RuntimeRegisters_new
    /\ codec = [trb |-> Trb_default, buf |-> [i \in 1..TRB_SIZE |-> 0]]
    /\ submitted = [cmd |-> <<>>, xfer |-> <<>>]
    /\ returned = [cmd |-> <<>>, xfer |-> <<>>]
    /\ threads = Threads_new
    /\ last = Call("new", <<>>, RetUnit)

\* ------------------------------------------------------------------------
\* Controller operations (mod.rs)
\* ------------------------------------------------------------------------
\* the guest producer: CommandRing::queue on the controller's command ring
QueueCommand(trb) ==
    /\ cmd_ring' = CommandRing_queue(cmd_ring, trb)
    /\ last' = Call("queue", <<>>, RetUnit)
    /\ UNCHANGED <<state, op_regs, rt_regs, ports, doorbells, slots, event_rings,
                   address_bitmap, ringVars, ering, aloneVars>>

\* XhciController::ring_doorbell
RingDoorbell(slot_id, target) ==
    /\ last' = Call("ring_doorbell", <<slot_id, target>>, RetUnit)
    /\ IF slot_id >= SlotsLen
       THEN UNCHANGED ctrlVars
       ELSE /\ doorbells' = [doorbells EXCEPT ![slot_id] = target]
            /\ IF slot_id = 0
               THEN LET c == process_command_ring(state,
                                [slots |-> slots, address_bitmap |-> address_bitmap,
                                 cmd_ring |-> cmd_ring, event_rings |-> event_rings])
                    IN  /\ slots' = c.slots
                        /\ address_bitmap' = c.address_bitmap
                        /\ cmd_ring' = c.cmd_ring
                        /\ event_rings' = c.event_rings
               ELSE /\ slots' = IF slots[slot_id] = None THEN slots
                                ELSE [slots EXCEPT ![slot_id] =
                                        Some(Slot_ring_ep(Unwrap(@), target))]
                    /\ UNCHANGED <<address_bitmap, cmd_ring, event_rings>>
            /\ UNCHANGED <<state, op_regs, rt_regs, ports>>
    /\ UNCHANGED <<ringVars, ering, aloneVars>>

\* XhciController::write_operational at offset 0x00 (USBCMD)
WriteUsbcmd(value) ==
    LET r == handle_usbcmd(op_regs, state, value) IN
    /\ op_regs' = r.op
    /\ state' = r.state
    /\ last' = Call("write_operational", <<0, value>>, RetUnit)
    /\ UNCHANGED <<ports, rt_regs, doorbells, slots, cmd_ring, event_rings,
                   address_bitmap, ringVars, ering, aloneVars>>

\* XhciController::attach_device
AttachDevice(port) ==
    LET r == find_free_slot(slots) IN
    /\ IF port >= XHCI_MAX_PORTS
       THEN /\ last' = Call("attach_device", <<port>>, RetErr("InvalidPort"))
            /\ UNCHANGED <<slots, ports>>
       ELSE IF ~r.ok
       THEN /\ last' = Call("attach_device", <<port>>, r)
            /\ UNCHANGED <<slots, ports>>
       ELSE IF r.val = 0
       THEN /\ last' = Call("attach_device", <<port>>, RetErr("NoFreeSlots"))
            /\ UNCHANGED <<slots, ports>>
       ELSE /\ slots' = [slots EXCEPT ![r.val] = Some(XhciDeviceSlot_new(r.val))]
            /\ ports' = set_port_connected(ports, port, TRUE)
            /\ last' = Call("attach_device", <<port>>, RetOk(r.val))
    /\ UNCHANGED <<state, op_regs, rt_regs, doorbells, cmd_ring, event_rings,
                   address_bitmap, ringVars, ering, aloneVars>>

\* XhciController::detach_device
DetachDevice(slot_id) ==
    /\ IF slot_id >= SlotsLen \/ slot_id = 0
       THEN /\ last' = Call("detach_device", <<slot_id>>, RetErr("InvalidSlot"))
            /\ UNCHANGED <<slots, address_bitmap>>
       ELSE /\ address_bitmap' =
                  IF slots[slot_id] = None THEN address_bitmap
                  ELSE free_address(address_bitmap, Slot_address(Unwrap(slots[slot_id])))
            /\ slots' = [slots EXCEPT ![slot_id] = None]
            /\ last' = Call("detach_device", <<slot_id>>, RetUnit)
    /\ UNCHANGED <<state, op_regs, rt_regs, ports, doorbells, cmd_ring, event_rings,
                   ringVars, ering, aloneVars>>

\* XhciController::allocate_address
AllocateAddress ==
    LET a == allocate_address(address_bitmap) IN
    /\ address_bitmap' = a.bitmap
    /\ last' = Call("allocate_address", <<>>,
                    IF a.ret = None THEN RetErr("None") ELSE RetOk(Unwrap(a.ret)))
    /\ UNCHANGED <<state, op_regs, rt_regs, ports, doorbells, slots, cmd_ring, event_rings,
                   ringVars, ering, aloneVars>>

\* XhciController::free_address
FreeAddress(addr) ==
    /\ address_bitmap' = free_address(address_bitmap, addr)
    /\ last' = Call("free_address", <<addr>>, RetUnit)
    /\ UNCHANGED <<state, op_regs, rt_regs, ports, doorbells, slots, cmd_ring, event_rings,
                   ringVars, ering, aloneVars>>

\* ------------------------------------------------------------------------
\* The controller specification
\* ------------------------------------------------------------------------
\* a command TRB of the given type for the given slot
Command(type, slot_id, parameter) ==
    set_trb_type(Trb_new(parameter, 0, slot_id * Pow2(24)), type)

\* one command per arm of handle_command, AddressDevice for two slots
CommandInputs ==
    {Command(AddressDevice, s, 4096) : s \in {1, 2}}
    \cup {Command(Noop, 0, 4096), Command(EnableSlot, 0, 4112),
          Command(DisableSlot, 1, 4112), Command(ConfigureEndpoint, 1, 4112),
          Command(ResetDevice, 1, 4096)}

DoorbellInputs == {<<0, 1>>, <<1, 0>>, <<33, 1>>}
UsbcmdInputs == {0, USBCMD_RS}
PortInputs == {0, XHCI_MAX_PORTS}
DetachInputs == {0, 1, 2, 33}

Occupied == {i \in 0..XHCI_MAX_SLOTS : slots[i] # None}

Submit ==
    \E trb \in CommandInputs :
        /\ Len(cmd_ring.pending) + Len(event_rings[0].pending) < MaxCommands
        /\ QueueCommand(trb)

Doorbell == \E d \in DoorbellInputs : RingDoorbell(d[1], d[2])

Usbcmd == \E v \in UsbcmdInputs : WriteUsbcmd(v)

Attach ==
    \E port \in PortInputs :
        /\ Cardinality(Occupied) < MaxDevices
        /\ AttachDevice(port)

Detach == \E slot_id \in DetachInputs : DetachDevice(slot_id)

Next == Submit \/ Doorbell \/ Usbcmd \/ Attach \/ Detach

Spec == Init /\ [][Next]_vars

\* ------------------------------------------------------------------------
\* Properties of the controller specification
\* ------------------------------------------------------------------------
IsPrefix(a, b) == Len(a) <= Len(b) /\ SubSeq(b, 1, Len(a)) = a

\* the step is a call ring_doorbell(0, _)
CommandDoorbellStep == last'.op = "ring_doorbell" /\ last'.args[1] = 0

\* C1: ringing doorbell 0 while the controller is Running consumes every
\* pending command and appends, for each of them and in submission order,
\* exactly one CommandCompletion event to interrupter 0's event ring (the
\* i-th new event carries the parameter the code copies from the i-th
\* command); the event rings of the other interrupters are left alone.
C1_CompletionPerCommandInOrder ==
    [][(CommandDoorbellStep /\ state = "Running") =>
        LET old  == event_rings[0].pending
            new  == event_rings'[0].pending
            cmds == cmd_ring.pending
        IN  /\ cmd_ring'.pending = <<>>
            /\ Len(new) = Len(old) + Len(cmds)
            /\ IsPrefix(old, new)
            /\ \A i \in 1..Len(cmds) :
                   /\ trb_type(new[Len(old) + i]) = Some(CommandCompletion)
                   /\ new[Len(old) + i].parameter = cmds[i].parameter
            /\ \A k \in 1..(XHCI_MAX_INTRS - 1) : event_rings'[k] = event_rings[k]
      ]_vars

\* C1 witness: a doorbell-0 call has drained the ring and interrupter 0 holds
\* two completions whose parameters tell their order apart
C1_Witness ==
    /\ last.op = "ring_doorbell" /\ last.args[1] = 0
    /\ state = "Running"
    /\ cmd_ring.pending = <<>>
    /\ Len(event_rings[0].pending) = 2
    /\ event_rings[0].pending[1].parameter # event_rings[0].pending[2].parameter

\* C2 (as claimed): completions of commands at different ring positions carry
\* different parameter values, the parameter being the address of the
\* command TRB and not a copy of the command's parameter field.
C2_DistinctCompletionParameters ==
    LET ev == event_rings[0].pending IN
    \A i, j \in 1..Len(ev) : i # j => ev[i].parameter # ev[j].parameter

\* C3: while the controller is not Running a doorbell-0 call consumes no
\* command and appends no event, no step removes or reorders the commands
\* already queued, and a doorbell-0 call made once the controller is Running
\* completes every queued command.
C3_HaltedKeepsCommandsQueued ==
    [][/\ (CommandDoorbellStep /\ state # "Running") =>
            (cmd_ring' = cmd_ring /\ event_rings' = event_rings
             /\ slots' = slots /\ address_bitmap' = address_bitmap)
       /\ (state # "Running") => IsPrefix(cmd_ring.pending, cmd_ring'.pending)
       /\ (CommandDoorbellStep /\ state = "Running") =>
            /\ cmd_ring'.pending = <<>>
            /\ Len(event_rings'[0].pending) =
                 Len(event_rings[0].pending) + Len(cmd_ring.pending)
      ]_vars

\* C3 witness: doorbell 0 was rung on a halted controller and the two queued
\* commands are still on the ring
C3_Witness ==
    /\ last.op = "ring_doorbell" /\ last.args[1] = 0
    /\ state = "Halted"
    /\ Len(cmd_ring.pending) = 2
    /\ event_rings[0].pending = <<>>

\* the step is a call detach_device(slot_id) on an occupied slot
DetachStep(slot_id) ==
    /\ last'.op = "detach_device" /\ last'.args[1] = slot_id
    /\ slot_id \in 1..XHCI_MAX_SLOTS
    /\ slots[slot_id] # None

\* C9 (as claimed): detach_device on an occupied slot removes the slot, leaves
\* the address the slot holds unmarked, and every address held by another
\* addressed slot that was marked stays marked.
C9_DetachFreesOnlyOwnAddress ==
    [][\A s \in 1..XHCI_MAX_SLOTS : DetachStep(s) =>
          /\ slots'[s] = None
          /\ Slot_address(Unwrap(slots[s])) \notin address_bitmap'
          /\ \A t \in Occupied \ {s} :
                (/\ Slot_state(Unwrap(slots[t])) = Addressed
                 /\ Slot_address(Unwrap(slots[t])) \in address_bitmap)
                => Slot_address(Unwrap(slots[t])) \in address_bitmap'
      ]_vars

\* C10 (as claimed): every addressed slot holds a nonzero address marked in
\* the bitmap, and no two occupied slots hold the same device address.
C10_UniqueDeviceAddresses ==
    \A i, j \in Occupied :
        (/\ Slot_state(Unwrap(slots[i])) = Addressed
         /\ Slot_state(Unwrap(slots[j])) = Addressed
         /\ i # j)
        => /\ Slot_address(Unwrap(slots[i])) # 0
           /\ Slot_address(Unwrap(slots[i])) # Slot_address(Unwrap(slots[j]))

\* ------------------------------------------------------------------------
\* The address allocator specification (allocate_address / free_address)
\* ------------------------------------------------------------------------
FreeInputs == (0..MaxFree) \cup {50, 127, 128, 129, 255}

Allocate == AllocateAddress

Free == \E addr \in FreeInputs : FreeAddress(addr)

NextAlloc == Allocate \/ Free

SpecAlloc == Init /\ [][NextAlloc]_vars

\* ------------------------------------------------------------------------
\* The slot table specification (attach_device / detach_device)
\* ------------------------------------------------------------------------
SlotPortInputs == {0, XHCI_MAX_PORTS - 1, XHCI_MAX_PORTS, 255}
SlotDetachInputs == (0..MaxDetach) \cup {XHCI_MAX_SLOTS, XHCI_MAX_SLOTS + 1}

AttachAny == \E port \in SlotPortInputs : AttachDevice(port)

DetachAny == \E slot_id \in SlotDetachInputs : DetachDevice(slot_id)

NextSlots == AttachAny \/ DetachAny

SpecSlots == Init /\ [][NextSlots]_vars

\* ------------------------------------------------------------------------
\* Stand-alone rings (rings.rs)
\* ------------------------------------------------------------------------
RingTrbs == {Trb_new(4096, 0, Normal * Pow2(10)), Trb_new(4112, 8, Normal * Pow2(10) + 1)}

\* CommandRing::queue
CRingQueue(trb) ==
    /\ cring' = CommandRing_queue(cring, trb)
    /\ submitted' = [submitted EXCEPT !.cmd = Append(@, trb)]
    /\ last' = Call("CommandRing::queue", <<>>, RetUnit)
    /\ UNCHANGED <<ctrlVars, aloneVars, tring, ering, returned, threads>>

\* CommandRing::next
CRingNext ==
    LET n == CommandRing_next(cring) IN
    /\ cring' = n.ring
    /\ returned' = IF n.ret = None THEN returned
                   ELSE [returned EXCEPT !.cmd = Append(@, Unwrap(n.ret))]
    /\ last' = Call("CommandRing::next", <<>>,
                    IF n.ret = None THEN RetErr("None") ELSE RetOk(1))
    /\ UNCHANGED <<ctrlVars, aloneVars, tring, ering, submitted, threads>>

\* TransferRing::queue
TRingQueue(trb) ==
    /\ tring' = TransferRing_queue(tring, trb)
    /\ submitted' = [submitted EXCEPT !.xfer = Append(@, trb)]
    /\ last' = Call("TransferRing::queue", <<>>, RetUnit)
    /\ UNCHANGED <<ctrlVars, aloneVars, cring, ering, returned, threads>>

\* TransferRing::next
TRingNext ==
    LET n == TransferRing_next(tring) IN
    /\ tring' = n.ring
    /\ returned' = IF n.ret = None THEN returned
                   ELSE [returned EXCEPT !.xfer = Append(@, Unwrap(n.ret))]
    /\ last' = Call("TransferRing::next", <<>>,
                    IF n.ret = None THEN RetErr("None") ELSE RetOk(1))
    /\ UNCHANGED <<ctrlVars, aloneVars, cring, ering, submitted, threads>>

CommandQueue ==
    \E trb \in RingTrbs : Len(submitted.cmd) < MaxRing /\ CRingQueue(trb)

TransferQueue ==
    \E trb \in RingTrbs : Len(submitted.xfer) < MaxRing /\ TRingQueue(trb)

NextRing == CommandQueue \/ CRingNext \/ TransferQueue \/ TRingNext

SpecRing == Init /\ [][NextRing]_vars

\* EventRing::set_segments
ERingSetSegments(segments) ==
    /\ ering' = EventRing_set_segments(ering, segments)
    /\ last' = Call("EventRing::set_segments", <<Len(segments)>>, RetUnit)
    /\ UNCHANGED <<ctrlVars, aloneVars, ringVars>>

\* EventRing::queue
ERingQueue(event) ==
    /\ ering' = EventRing_queue(ering, event)
    /\ last' = Call("EventRing::queue", <<>>, RetOk(1))
    /\ UNCHANGED <<ctrlVars, aloneVars, ringVars>>

EventInputs == {Trb_new(0, 0, 0), Trb_new(4096, 0, TransferEvent * Pow2(10) + 1)}

\* a single-segment table is installed on a ring that holds no event yet
InstallSegment ==
    \E size \in 1..MaxSegSize :
        /\ ering.pending = <<>>
        /\ ERingSetSegments(<<EventRingSegment_new(131072, size)>>)

QueueEvent ==
    \E event \in EventInputs :
        /\ Len(ering.pending) < MaxEvents
        /\ ERingQueue(event)

NextEventRing == InstallSegment \/ QueueEvent

SpecEventRing == Init /\ [][NextEventRing]_vars

\* ------------------------------------------------------------------------
\* Properties of the stand-alone rings
\* ------------------------------------------------------------------------
\* what a next call must do, told from the calls made so far: hand back the
\* oldest TRB not yet handed back, or nothing and no change when there is none
NextIsFifo(sub, ret, ret2, ring, ring2) ==
    IF Len(ret) < Len(sub)
    THEN last'.ret.ok /\ ret2 = Append(ret, sub[Len(ret) + 1])
    ELSE ~last'.ret.ok /\ ret2 = ret /\ ring2 = ring

\* C4: for the CommandRing and for the TransferRing, the TRBs handed back by
\* next are, in order, the TRBs passed to queue (n queue calls followed by n
\* next calls return the n TRBs in submission order), and next on an empty
\* ring returns nothing and changes no ring state.
C4_RingsAreFifo ==
    /\ [](IsPrefix(returned.cmd, submitted.cmd) /\ IsPrefix(returned.xfer, submitted.xfer))
    /\ [][(last'.op = "CommandRing::next" /\ tring' = tring) =>
            NextIsFifo(submitted.cmd, returned.cmd, returned'.cmd, cring, cring')]_vars
    /\ [][(last'.op = "TransferRing::next" /\ cring' = cring) =>
            NextIsFifo(submitted.xfer, returned.xfer, returned'.xfer, tring, tring')]_vars

\* C4 witness: three TRBs, not all alike, went through each ring, all were
\* handed back, and a further next found the command ring empty
C4_Witness ==
    /\ Len(submitted.cmd) = 3 /\ submitted.cmd[1] # submitted.cmd[2]
    /\ returned.cmd = submitted.cmd
    /\ Len(submitted.xfer) = 3 /\ submitted.xfer[2] # submitted.xfer[3]
    /\ returned.xfer = submitted.xfer
    /\ last.op = "CommandRing::next" /\ ~last.ret.ok

\* C5 (as claimed): on a single-segment event ring whose segment has size
\* N >= 1, the first N events queued carry the initial producer cycle bit
\* (set), the producer cycle bit has flipped once after the N-th, and the
\* (N+1)-th event carries the flipped bit.
C5_CycleFlipsAfterSegmentSize ==
    (Len(ering.segments) = 1) =>
        LET N == ering.segments[1].size
            pending == ering.pending
        IN  /\ \A i \in 1..Len(pending) :
                   /\ (i <= N) => cycle_bit(pending[i])
                   /\ (i = N + 1) => ~cycle_bit(pending[i])
            /\ (Len(pending) = N) => ~ering.cycle

\* ------------------------------------------------------------------------
\* Properties of the address allocator
\* ------------------------------------------------------------------------
Min(S) == CHOOSE a \in S : \A b \in S : a <= b

\* C6: allocate_address returns the lowest address of 1..=127 that is not
\* marked and marks it, and returns none, leaving the bitmap unchanged, when
\* all are marked; so from the bitmap holding exactly 1..k it returns k+1 up
\* to 127 and then none, and a freed address is returned again as soon as no
\* lower address is free.
C6_AllocateLowestFree ==
    [][(last'.op = "allocate_address") =>
        LET free == (1..127) \ address_bitmap IN
        /\ IF free = {}
           THEN ~last'.ret.ok /\ address_bitmap' = address_bitmap
           ELSE /\ last'.ret.ok
                /\ last'.ret.val = Min(free)
                /\ address_bitmap' = address_bitmap \cup {Min(free)}
        /\ \A k \in 0..127 :
              (address_bitmap = 1..k) =>
                 IF k < 127 THEN last'.ret.ok /\ last'.ret.val = k + 1
                 ELSE ~last'.ret.ok
      ]_vars

\* C6 witness: the 128th allocation found every address marked and returned none
C6_Witness ==
    /\ last.op = "allocate_address" /\ ~last.ret.ok
    /\ address_bitmap = 1..127

\* C7: free_address(0) and free_address(a) for a > 127 leave the bitmap
\* unchanged, address 0 is unmarked in every state, and allocate_address
\* never returns 0.
C7_InvalidFreeIsNoOp ==
    /\ [](0 \notin address_bitmap)
    /\ []((last.op = "allocate_address" /\ last.ret.ok) => last.ret.val # 0)
    /\ [][(last'.op = "free_address" /\ (last'.args[1] = 0 \/ last'.args[1] > 127))
            => address_bitmap' = address_bitmap]_vars

\* C7 witness: free_address was called with an address above 127 while
\* addresses 1 and 2 were marked
C7_Witness ==
    /\ last.op = "free_address" /\ last.args[1] > 127
    /\ {1, 2} \subseteq address_bitmap

\* ------------------------------------------------------------------------
\* Properties of the slot table
\* ------------------------------------------------------------------------
\* C8: attach_device with a valid port returns the lowest unoccupied slot
\* index >= 1, occupies exactly that index with a slot whose slot_id is the
\* index, and sets the port's connect-status and connect-status-change bits;
\* it returns NoFreeSlots when indices 1..=max_slots are all occupied and
\* InvalidPort when port >= max_ports, changing no state in both cases; slot
\* index 0 is never occupied.
C8_AttachTakesLowestFreeSlot ==
    /\ [](slots[0] = None)
    /\ [][(last'.op = "attach_device") =>
            LET port == last'.args[1]
                free == {i \in 1..XHCI_MAX_SLOTS : slots[i] = None}
            IN  IF port >= XHCI_MAX_PORTS
                THEN /\ ~last'.ret.ok /\ last'.ret.err = "InvalidPort"
                     /\ UNCHANGED ctrlVars
                ELSE IF free = {}
                THEN /\ ~last'.ret.ok /\ last'.ret.err = "NoFreeSlots"
                     /\ UNCHANGED ctrlVars
                ELSE /\ last'.ret.ok /\ last'.ret.val = Min(free)
                     /\ slots'[Min(free)] # None
                     /\ Unwrap(slots'[Min(free)]).slot_id = Min(free)
                     /\ \A i \in 0..XHCI_MAX_SLOTS :
                           i # Min(free) => slots'[i] = slots[i]
                     /\ BitAnd(ports'[port].portsc, PORTSC_CCS) # 0
                     /\ BitAnd(ports'[port].portsc, PORTSC_CSC) # 0
          ]_vars

\* C8 witness: every slot 1..=32 is occupied and attach_device on a valid
\* port returned NoFreeSlots
C8_Witness ==
    /\ last.op = "attach_device" /\ last.args[1] < XHCI_MAX_PORTS
    /\ ~last.ret.ok /\ last.ret.err = "NoFreeSlots"
    /\ \A i \in 1..XHCI_MAX_SLOTS : slots[i] # None

\* ------------------------------------------------------------------------
\* Properties of the slot lifecycle under the controller specification
\* ------------------------------------------------------------------------
\* the slot id a CommandCompletion event reports (event.status |= slot_id)
event_slot_id(event) == BitAnd(event.status, 255)

\* the i-th command of the batch of a doorbell-0 step is an EnableSlot that
\* completed with Success
EnableSlotSucceeded(i) ==
    /\ trb_type(cmd_ring.pending[i]) = Some(EnableSlot)
    /\ completion_code(event_rings'[0].pending[Len(event_rings[0].pending) + i])
         = Success

\* the slot id reported by the completion of the i-th command of the batch
ReportedSlot(i) ==
    event_slot_id(event_rings'[0].pending[Len(event_rings[0].pending) + i])

\* C11 (as claimed): when an EnableSlot command completes with Success
\* reporting slot id s, and no later command of the same batch names s, slot
\* s is occupied in state Default afterwards; and a later EnableSlot of the
\* batch, with no DisableSlot for s in between, reports a slot id other
\* than s.
C11_EnableSlotOccupiesSlot ==
    [][(CommandDoorbellStep /\ state = "Running") =>
        LET cmds == cmd_ring.pending IN
        \A i \in 1..Len(cmds) : EnableSlotSucceeded(i) =>
            LET s == ReportedSlot(i) IN
            /\ (\A k \in (i + 1)..Len(cmds) : trb_slot_id(cmds[k]) # s)
                  => /\ slots'[s] # None
                     /\ Slot_state(Unwrap(slots'[s])) = Default
            /\ \A j \in (i + 1)..Len(cmds) :
                  (/\ EnableSlotSucceeded(j)
                   /\ \A k \in (i + 1)..(j - 1) : trb_slot_id(cmds[k]) # s)
                  => ReportedSlot(j) # s
      ]_vars

\* the completion code of the event posted for the i-th command of the batch
ReportedCode(i) ==
    completion_code(event_rings'[0].pending[Len(event_rings[0].pending) + i])

\* the i-th command of the batch is the only one of the batch naming its slot
OnlyCommandForSlot(i) ==
    \A k \in 1..Len(cmd_ring.pending) :
        k # i => trb_slot_id(cmd_ring.pending[k]) # trb_slot_id(cmd_ring.pending[i])

\* C12 (as claimed): a ConfigureEndpoint command, the only command of its
\* batch for its slot, that completes with Success on a slot in state
\* Addressed leaves that slot in state Configured.
C12_ConfigureEndpointConfigures ==
    [][(CommandDoorbellStep /\ state = "Running") =>
        LET cmds == cmd_ring.pending IN
        \A i \in 1..Len(cmds) :
            LET s == trb_slot_id(cmds[i]) IN
            (/\ trb_type(cmds[i]) = Some(ConfigureEndpoint)
             /\ OnlyCommandForSlot(i)
             /\ s < SlotsLen
             /\ slots[s] # None
             /\ Slot_state(Unwrap(slots[s])) = Addressed
             /\ ReportedCode(i) = Success)
            => /\ slots'[s] # None
               /\ Slot_state(Unwrap(slots'[s])) = Configured
      ]_vars

\* ------------------------------------------------------------------------
\* The device slot specification (device.rs): a stand-alone XhciDeviceSlot
\* ------------------------------------------------------------------------
\* device resets observed on the stand-alone slot in one run
MaxResets == 2

\* XhciDeviceSlot::set_state
DSlotSetState(st) ==
    /\ dslot' = Slot_set_state(dslot, st)
    /\ last' = Call("XhciDeviceSlot::set_state", <<st>>, RetUnit)
    /\ UNCHANGED <<ctrlVars, ringVars, ering, runtime, codec>>

\* XhciDeviceSlot::init_ep_ring
DSlotInitEpRing(ep_id, base, size) ==
    /\ dslot' = Slot_init_ep_ring(dslot, ep_id, base, size)
    /\ last' = Call("XhciDeviceSlot::init_ep_ring", <<ep_id, base, size>>, RetUnit)
    /\ UNCHANGED <<ctrlVars, ringVars, ering, runtime, codec>>

\* XhciDeviceSlot::ring_ep
DSlotRingEp(ep_id) ==
    /\ dslot' = Slot_ring_ep(dslot, ep_id)
    /\ last' = Call("XhciDeviceSlot::ring_ep", <<ep_id>>, RetUnit)
    /\ UNCHANGED <<ctrlVars, ringVars, ering, runtime, codec>>

\* XhciDeviceSlot::handle_command; the call record keeps the TRB's type
\* code, endpoint field and parameter, and the completion code returned
DSlotHandleCommand(trb) ==
    LET h == Slot_handle_command(dslot, trb) IN
    /\ dslot' = h.slot
    /\ last' = Call("XhciDeviceSlot::handle_command",
                    <<BitAnd(ShiftR(trb.control, 10), 63),
                      BitAnd(ShiftR(trb.control, 16), 31), trb.parameter>>,
                    RetOk(h.code))
    /\ UNCHANGED <<ctrlVars, ringVars, ering, runtime, codec>>

\* a command TRB for endpoint ep_id as the slot reads it
EndpointCommand(type, ep_id, parameter) ==
    set_trb_type(Trb_new(parameter, 0, ep_id * Pow2(16)), type)

SlotCommandInputs ==
    {EndpointCommand(t, 0, 4096) :
        t \in {AddressDevice, ConfigureEndpoint, StopEndpoint, ResetDevice, Noop}}
    \cup {EndpointCommand(SetTrDequeue, 1, 8193)}

SetSlotState == \E st \in {Disabled, Default, Addressed, Configured} : DSlotSetState(st)

InitEndpoint == \E ep_id \in {1, 32} : DSlotInitEpRing(ep_id, 4096, 16)

RingEndpoint == \E ep_id \in {0, 1, 32} : DSlotRingEp(ep_id)

SlotCommand ==
    \E trb \in SlotCommandInputs :
        /\ (trb_type(trb) = Some(ResetDevice)) => dslot.device_resets < MaxResets
        /\ DSlotHandleCommand(trb)

NextDeviceSlot == SetSlotState \/ InitEndpoint \/ RingEndpoint \/ SlotCommand

SpecDeviceSlot == Init /\ [][NextDeviceSlot]_vars

\* C13: a ResetDevice command handled by a slot whose state is Default,
\* Addressed or Configured returns Success, leaves the slot in state Default
\* and invokes the device's reset() exactly once; nothing else of the slot
\* changes.
C13_ResetDeviceReturnsToDefault ==
    [][(/\ last'.op = "XhciDeviceSlot::handle_command"
        /\ last'.args[1] = ResetDevice
        /\ Slot_state(dslot) \in {Default, Addressed, Configured})
       => /\ last'.ret.ok /\ last'.ret.val = Success
          /\ Slot_state(dslot') = Default
          /\ dslot'.device_resets = dslot.device_resets + 1
          /\ dslot'.usb_dev_addr = dslot.usb_dev_addr
          /\ dslot'.transfer_rings = dslot.transfer_rings
      ]_vars

\* C13 witness: the slot was addressed (it holds address 1), a ResetDevice
\* was handled and the device saw its second reset
C13_Witness ==
    /\ last.op = "XhciDeviceSlot::handle_command"
    /\ last.args[1] = ResetDevice
    /\ dslot.usb_dev_addr = 1
    /\ Slot_state(dslot) = Default
    /\ dslot.device_resets = 2

\* ------------------------------------------------------------------------
\* The transfer specification: endpoint doorbells on the controller
\* ------------------------------------------------------------------------
\* transfer TRBs waiting on one endpoint ring
MaxTransfers == 2

\* XhciDeviceSlot::init_ep_ring on the slot the controller holds
InitSlotEpRing(slot_id, ep_id, base, size) ==
    /\ slots[slot_id] # None
    /\ slots' = [slots EXCEPT ![slot_id] =
                   Some(Slot_init_ep_ring(Unwrap(@), ep_id, base, size))]
    /\ last' = Call("XhciDeviceSlot::init_ep_ring", <<ep_id, base, size>>, RetUnit)
    /\ UNCHANGED <<state, op_regs, rt_regs, ports, doorbells, cmd_ring, event_rings,
                   address_bitmap, ringVars, ering, aloneVars>>

\* the guest producer: TransferRing::queue on an endpoint ring of a slot
QueueTransfer(slot_id, ep_id, trb) ==
    /\ slots[slot_id] # None
    /\ Unwrap(slots[slot_id]).transfer_rings[ep_id] # None
    /\ slots' = [slots EXCEPT ![slot_id] =
                   Some([Unwrap(@) EXCEPT !.transfer_rings[ep_id] =
                           Some(TransferRing_queue(Unwrap(@), trb))])]
    /\ last' = Call("TransferRing::queue", <<>>, RetUnit)
    /\ UNCHANGED <<state, op_regs, rt_regs, ports, doorbells, cmd_ring, event_rings,
                   address_bitmap, ringVars, ering, aloneVars>>

TransferInputs ==
    {Trb_new(4096, 8, Normal * Pow2(10) + 1), Trb_new(4112, 8, Normal * Pow2(10) + 1)}

TransferDoorbellInputs == {<<1, 1>>, <<1, 2>>, <<2, 1>>, <<1, 32>>, <<0, 0>>}

AttachForTransfer == Cardinality(Occupied) < MaxDevices /\ AttachDevice(0)

SetupEndpoint ==
    \E slot_id \in 1..MaxDevices : InitSlotEpRing(slot_id, 1, 4096, 16)

SubmitTransfer ==
    \E slot_id \in 1..MaxDevices, trb \in TransferInputs :
        /\ slots[slot_id] # None
        /\ Unwrap(slots[slot_id]).transfer_rings[1] # None
        /\ Len(Unwrap(Unwrap(slots[slot_id]).transfer_rings[1]).pending) < MaxTransfers
        /\ QueueTransfer(slot_id, 1, trb)

TransferDoorbell == \E d \in TransferDoorbellInputs : RingDoorbell(d[1], d[2])

NextTransfer ==
    AttachForTransfer \/ SetupEndpoint \/ SubmitTransfer \/ TransferDoorbell \/ Usbcmd

SpecTransfer == Init /\ [][NextTransfer]_vars

\* C14 (as claimed): ring_doorbell(slot, ep) for an occupied slot >= 1 whose
\* endpoint ep has a transfer ring drains that ring, invokes the device's
\* handle_transfer once per TRB drained, and posts one TransferEvent per TRB
\* drained to interrupter 0, in the order drained (the i-th new event
\* carries the i-th TRB's parameter).
C14_EndpointDoorbellPostsTransferEvents ==
    [][\A s \in 1..XHCI_MAX_SLOTS, ep \in 0..31 :
        (/\ last'.op = "ring_doorbell" /\ last'.args = <<s, ep>>
         /\ slots[s] # None
         /\ Unwrap(slots[s]).transfer_rings[ep] # None)
        => LET trbs == Unwrap(Unwrap(slots[s]).transfer_rings[ep]).pending
               old  == event_rings[0].pending
               new  == event_rings'[0].pending
           IN  /\ slots'[s] # None
               /\ Unwrap(Unwrap(slots'[s]).transfer_rings[ep]).pending = <<>>
               /\ Unwrap(slots'[s]).device_transfers
                    = Unwrap(slots[s]).device_transfers + Len(trbs)
               /\ Len(new) = Len(old) + Len(trbs)
               /\ IsPrefix(old, new)
               /\ \A i \in 1..Len(trbs) :
                      /\ trb_type(new[Len(old) + i]) = Some(TransferEvent)
                      /\ new[Len(old) + i].parameter = trbs[i].parameter
      ]_vars

\* ------------------------------------------------------------------------
\* Properties of command dispatch under the controller specification
\* ------------------------------------------------------------------------
\* the command types XhciDeviceSlot::handle_command has an arm for
SlotCommandTypes ==
    {AddressDevice, ConfigureEndpoint, EvaluateContext, ResetEndpoint,
     StopEndpoint, SetTrDequeue, ResetDevice}

\* C15 (as claimed): a command of a type the device slot handles, the only
\* command of its batch for its slot, whose slot id names an occupied slot,
\* is dispatched to that slot: the slot afterwards is the slot as its
\* handle_command leaves it, and the completion event carries the code
\* that handle_command returns.
C15_SlotCommandsDispatchedToSlot ==
    [][(CommandDoorbellStep /\ state = "Running") =>
        LET cmds == cmd_ring.pending IN
        \A i \in 1..Len(cmds) :
            LET s == trb_slot_id(cmds[i]) IN
            (/\ \E t \in SlotCommandTypes : trb_type(cmds[i]) = Some(t)
             /\ OnlyCommandForSlot(i)
             /\ s < SlotsLen
             /\ slots[s] # None)
            => LET h == Slot_handle_command(Unwrap(slots[s]), cmds[i])
               IN  /\ slots'[s] = Some(h.slot)
                   /\ ReportedCode(i) = h.code
      ]_vars

\* C16 (as claimed): when a ring_doorbell(0, _) call has appended at least
\* one CommandCompletion event to interrupter 0's event ring, an interrupt is
\* pending on return: interrupter 0's IMAN pending bit is set or the USBSTS
\* event-interrupt bit is set.
C16_CompletionRaisesInterrupt ==
    [][(/\ CommandDoorbellStep
        /\ Len(event_rings'[0].pending) > Len(event_rings[0].pending))
       => \/ /\ Len(rt_regs'.interrupters) >= 1
             /\ BitAnd(rt_regs'.interrupters[1].iman, IMAN_IP) # 0
          \/ BitAnd(op_regs'.usbsts, USBSTS_EINT) # 0
      ]_vars

\* ------------------------------------------------------------------------
\* The operational register specification (write_operational)
\* ------------------------------------------------------------------------
\* XhciController::write_operational
WriteOperational(offset, value) ==
    LET r == OperationalRegisters_write(op_regs, ports, state, offset, value) IN
    /\ op_regs' = r.op
    /\ ports' = r.ports
    /\ state' = r.state
    /\ last' = Call("write_operational", <<offset, value>>, RetUnit)
    /\ UNCHANGED <<rt_regs, doorbells, slots, cmd_ring, event_rings,
                   address_bitmap, ringVars, ering, aloneVars>>

USBCMD_INTE == 4

\* USBCMD values: every combination of run/stop, reset and interrupter enable
UsbcmdValues == 0..(USBCMD_RS + USBCMD_HCRST + USBCMD_INTE)

\* offset and value of the writes: USBCMD, USBSTS, CRCR, DCBAAP, PORTSC of
\* port 0, and the read-only PAGESIZE
OperationalInputs ==
    {<<0, v>> : v \in UsbcmdValues}
    \cup {<<4, USBSTS_EINT + USBSTS_HCH>>, <<16, 0>>, <<16, 4161>>, <<48, 0>>,
          <<48, 8192>>, <<1024, PORTSC_PP>>, <<8, 1>>}

WriteRegister == \E w \in OperationalInputs : WriteOperational(w[1], w[2])

NextOperational == WriteRegister

SpecOperational == Init /\ [][NextOperational]_vars

\* the step is a USBCMD write
UsbcmdWriteStep == last'.op = "write_operational" /\ last'.args[1] = 0

\* C17: a USBCMD write with the reset bit set, issued in any controller
\* state, leaves CRCR and DCBAAP at 0 and the controller Halted with the
\* halted-status bit of USBSTS set.
C17_ResetClearsAndHalts ==
    [][(UsbcmdWriteStep /\ BitAnd(last'.args[2], USBCMD_HCRST) # 0)
       => /\ op_regs'.crcr = 0
          /\ op_regs'.dcbaap = 0
          /\ state' = "Halted"
          /\ BitAnd(op_regs'.usbsts, USBSTS_HCH) # 0
      ]_vars

\* C17 witness: a reset was written to a controller that had been started
\* (the run/stop bit is still stored) and it is halted with CRCR and DCBAAP
\* cleared
C17_Witness ==
    /\ last.op = "write_operational" /\ last.args = <<0, USBCMD_HCRST>>
    /\ BitAnd(op_regs.usbcmd, USBCMD_RS) # 0
    /\ state = "Halted"
    /\ op_regs.crcr = 0 /\ op_regs.dcbaap = 0
    /\ op_regs.usbsts = USBSTS_HCH + USBSTS_CNR

\* C18: a USBCMD write without the reset bit whose run/stop bit differs from
\* the stored one moves the controller to Running when the bit is written 1
\* and to Halted when it is written 0, and leaves the halted-status bit of
\* USBSTS set exactly when the controller is Halted; a write whose run/stop
\* bit equals the stored one leaves the controller state unchanged.
C18_RunStopToggle ==
    [][(UsbcmdWriteStep /\ BitAnd(last'.args[2], USBCMD_HCRST) = 0)
       => LET value == last'.args[2] IN
          IF BitAnd(value, USBCMD_RS) # BitAnd(op_regs.usbcmd, USBCMD_RS)
          THEN /\ state' = IF BitAnd(value, USBCMD_RS) # 0 THEN "Running" ELSE "Halted"
               /\ (BitAnd(op_regs'.usbsts, USBSTS_HCH) # 0) <=> (state' = "Halted")
          ELSE state' = state
      ]_vars

\* C18 witness: the run bit alone was written and the controller is Running
\* with the halted-status bit clear
C18_Witness ==
    /\ last.op = "write_operational" /\ last.args = <<0, USBCMD_RS>>
    /\ state = "Running"
    /\ BitAnd(op_regs.usbsts, USBSTS_HCH) = 0

\* C19 (as claimed): a USBCMD write of only the run bit that directly
\* follows a USBCMD write with the reset bit leaves the controller Running.
C19_ResetThenRunStarts ==
    [][(/\ last.op = "write_operational" /\ last.args[1] = 0
        /\ BitAnd(last.args[2], USBCMD_HCRST) # 0
        /\ last'.op = "write_operational" /\ last'.args = <<0, USBCMD_RS>>)
       => state' = "Running"
      ]_vars

\* ------------------------------------------------------------------------
\* The runtime register specification: a stand-alone RuntimeRegisters::new()
\* ------------------------------------------------------------------------
\* RuntimeRegisters::write
RuntimeWrite(offset, value) ==
    /\ runtime' = RuntimeRegisters_write(runtime, offset, value)
    /\ last' = Call("RuntimeRegisters::write", <<offset, value>>, RetUnit)
    /\ UNCHANGED <<ctrlVars, ringVars, ering, dslot, codec>>

\* RuntimeRegisters::read
RuntimeRead(offset) ==
    /\ last' = Call("RuntimeRegisters::read", <<offset>>,
                    RetOk(RuntimeRegisters_read(runtime, offset)))
    /\ UNCHANGED <<ctrlVars, ringVars, ering, aloneVars>>

\* the offset of register reg of interrupter n
InterrupterOffset(n, reg) == 32 + 32 * n + reg

\* MFINDEX, IMAN of interrupters 0 and 7, IMOD of interrupter 0, a reserved
\* word, and IMAN of the interrupter one past the last
RuntimeOffsets ==
    {0, InterrupterOffset(0, 0), InterrupterOffset(XHCI_MAX_INTRS - 1, 0),
     InterrupterOffset(0, 4), InterrupterOffset(0, 12),
     InterrupterOffset(XHCI_MAX_INTRS, 0)}

\* the four combinations of the IMAN pending and enable bits
RuntimeValues == 0..(IMAN_IP + IMAN_IE)

WriteRuntimeRegister ==
    \E offset \in RuntimeOffsets, value \in RuntimeValues : RuntimeWrite(offset, value)

ReadRuntimeRegister == \E offset \in RuntimeOffsets : RuntimeRead(offset)

NextRuntime == WriteRuntimeRegister \/ ReadRuntimeRegister

SpecRuntime == Init /\ [][NextRuntime]_vars

\* C20 (as claimed): a write to an interrupter's IMAN register clears the
\* pending bit when that bit is written 1 and leaves it unchanged when it is
\* written 0, and leaves the enable bit equal to the enable bit written.
C20_ImanPendingW1cEnableRw ==
    [][\A n \in 0..(XHCI_MAX_INTRS - 1) :
        (/\ last'.op = "RuntimeRegisters::write"
         /\ last'.args[1] = InterrupterOffset(n, 0))
        => LET value == last'.args[2]
               old == runtime.interrupters[n + 1].iman
               new == runtime'.interrupters[n + 1].iman
           IN  /\ BitAnd(new, IMAN_IP) =
                    (IF BitAnd(value, IMAN_IP) # 0 THEN 0 ELSE BitAnd(old, IMAN_IP))
               /\ BitAnd(new, IMAN_IE) = BitAnd(value, IMAN_IE)
      ]_vars

\* ------------------------------------------------------------------------
\* The TRB specification (rings.rs): a stand-alone Trb and its encoding
\* ------------------------------------------------------------------------
\* Trb::new
TrbCreate(parameter, status, control) ==
    /\ codec' = [codec EXCEPT !.trb = Trb_new(parameter, status, control)]
    /\ last' = Call("Trb::new", <<parameter, status, control>>, RetUnit)
    /\ UNCHANGED <<ctrlVars, ringVars, ering, dslot, runtime>>

\* Trb::set_trb_type
TrbSetType(t) ==
    /\ codec' = [codec EXCEPT !.trb = set_trb_type(@, t)]
    /\ last' = Call("Trb::set_trb_type", <<t>>, RetUnit)
    /\ UNCHANGED <<ctrlVars, ringVars, ering, dslot, runtime>>

\* Trb::trb_type
TrbGetType ==
    LET t == trb_type(codec.trb) IN
    /\ last' = Call("Trb::trb_type", <<>>,
                    IF t = None THEN RetErr("None") ELSE RetOk(Unwrap(t)))
    /\ UNCHANGED <<ctrlVars, ringVars, ering, aloneVars>>

\* Trb::as_bytes into the buffer
TrbAsBytes ==
    /\ codec' = [codec EXCEPT !.buf = Trb_as_bytes(codec.trb)]
    /\ last' = Call("Trb::as_bytes", <<>>, RetUnit)
    /\ UNCHANGED <<ctrlVars, ringVars, ering, dslot, runtime>>

\* Trb::from_bytes of the buffer
TrbFromBytes ==
    /\ codec' = [codec EXCEPT !.trb = Trb_from_bytes(codec.buf)]
    /\ last' = Call("Trb::from_bytes", <<>>, RetUnit)
    /\ UNCHANGED <<ctrlVars, ringVars, ering, dslot, runtime>>

\* parameters using one byte, two bytes and four bytes
TrbParameterInputs == {0, 4112, 305419896}

TrbStatusInputs == {0, 16777224}

\* control words: type codes 0, 1, 24, 31, 33, 40 and 63, with and without
\* the cycle bit and a slot id
TrbControlInputs ==
    {0, Normal * Pow2(10) + 1, 24 * Pow2(10), 31 * Pow2(10) + 1,
     CommandCompletion * Pow2(10) + Pow2(24) + 1, 40 * Pow2(10) + Pow2(24),
     63 * Pow2(10) + 3 * Pow2(24) + 33}

CreateTrb ==
    \E parameter \in TrbParameterInputs, status \in TrbStatusInputs,
       control \in TrbControlInputs : TrbCreate(parameter, status, control)

SetType == \E t \in TrbTypes : TrbSetType(t)

\* the type field: Trb::new, set_trb_type, trb_type
NextTrb == CreateTrb \/ SetType \/ TrbGetType

SpecTrb == Init /\ [][NextTrb]_vars

\* the encoding: Trb::new, as_bytes, from_bytes
NextCodec == CreateTrb \/ TrbAsBytes \/ TrbFromBytes

SpecCodec == Init /\ [][NextCodec]_vars

\* byte i (counted from 0) of the little-endian representation of x
RECURSIVE LeByte(_, _)
LeByte(x, i) == IF i = 0 THEN x % 256 ELSE LeByte(x \div 256, i - 1)

\* C21: as_bytes writes the parameter little-endian into bytes 0..8, the
\* status into bytes 8..12 and the control into bytes 12..16, and from_bytes
\* of the bytes as_bytes produced yields a TRB with the same three fields.
C21_TrbCodecRoundTrip ==
    /\ [][(last'.op = "Trb::as_bytes") =>
            /\ Len(codec'.buf) = TRB_SIZE
            /\ \A i \in 0..7 : codec'.buf[i + 1] = LeByte(codec.trb.parameter, i)
            /\ \A i \in 0..3 : codec'.buf[9 + i] = LeByte(codec.trb.status, i)
            /\ \A i \in 0..3 : codec'.buf[13 + i] = LeByte(codec.trb.control, i)
         ]_vars
    /\ [][(last.op = "Trb::as_bytes" /\ last'.op = "Trb::from_bytes")
            => codec'.trb = codec.trb]_vars

\* C21 witness: a TRB with a four-byte parameter, a status with a completion
\* code and a control word with a slot id was encoded and decoded again
C21_Witness ==
    /\ last.op = "Trb::from_bytes"
    /\ codec.trb = Trb_new(305419896, 16777224, 63 * Pow2(10) + 3 * Pow2(24) + 33)
    /\ codec.buf[1] = 120 /\ codec.buf[4] = 18
    /\ codec.buf[9] = 8 /\ codec.buf[12] = 1
    /\ codec.buf[16] = 3

\* the 6-bit type codes that name no TRB type
UndefinedTypeCodes == {0} \cup (24..31) \cup (40..63)

\* the type field of a control word
TypeField(control) == BitAnd(ShiftR(control, 10), 63)

\* C22: a TRB whose type code is 0, 24..=31 or 40..=63 has no recognized
\* type, and a TRB with any other code has exactly the type of that code;
\* set_trb_type(T) for a defined type T makes trb_type() yield T and changes
\* no control bit outside bits 10..=15, nor the parameter or the status.
C22_TypeCodesRejectedOrExact ==
    /\ [](IF TypeField(codec.trb.control) \in UndefinedTypeCodes
          THEN trb_type(codec.trb) = None
          ELSE trb_type(codec.trb) = Some(TypeField(codec.trb.control)))
    /\ [][(last'.op = "Trb::trb_type") =>
            IF TypeField(codec.trb.control) \in UndefinedTypeCodes
            THEN ~last'.ret.ok
            ELSE last'.ret.ok /\ last'.ret.val = TypeField(codec.trb.control)]_vars
    /\ [][(last'.op = "Trb::set_trb_type") =>
            /\ trb_type(codec'.trb) = Some(last'.args[1])
            /\ BitClear(codec'.trb.control, 63 * Pow2(10))
                 = BitClear(codec.trb.control, 63 * Pow2(10))
            /\ codec'.trb.parameter = codec.trb.parameter
            /\ codec'.trb.status = codec.trb.status]_vars

\* C22 witness: a TRB with the undefined type code 63, a slot id and flag
\* bits was given the type MfindexWrap, which it now reports, the other
\* control bits being as before
C22_Witness ==
    /\ last.op = "Trb::set_trb_type" /\ last.args[1] = 39
    /\ codec.trb.control = 39 * Pow2(10) + 3 * Pow2(24) + 33

\* ------------------------------------------------------------------------
\* The command error specification: commands the controller must refuse
\* ------------------------------------------------------------------------
\* a TRB with the raw 6-bit type code given, for the given slot
RawCommand(code, slot_id, parameter) ==
    Trb_new(parameter, 0, slot_id * Pow2(24) + code * Pow2(10))

\* TRBs of unrecognized type (codes 0 and 63), of a transfer and of an event
\* type; AddressDevice and ConfigureEndpoint for slot 1, for slot 2 and for
\* slot 33, which is beyond the slot table
RefusedCommandInputs ==
    {RawCommand(0, 1, 4096), RawCommand(63, 0, 4112),
     RawCommand(Normal, 1, 4096), RawCommand(TransferEvent, 1, 4112)}
    \cup {RawCommand(t, s, 4096) :
            t \in {AddressDevice, ConfigureEndpoint}, s \in {1, 2, XHCI_MAX_SLOTS + 1}}

SubmitRefused ==
    \E trb \in RefusedCommandInputs :
        /\ Len(cmd_ring.pending) + Len(event_rings[0].pending) < MaxCommands
        /\ QueueCommand(trb)

AttachOne == Occupied = {} /\ AttachDevice(0)

CommandDoorbell == RingDoorbell(0, 0)

NextCommands == SubmitRefused \/ AttachOne \/ CommandDoorbell \/ Usbcmd

SpecCommands == Init /\ [][NextCommands]_vars

\* the command types: the TRB type codes 9..=23
CommandTypeCodes == 9..23

\* the i-th command of the batch has an unrecognized type code or the code
\* of a transfer or event TRB
NotACommand(i) == TypeField(cmd_ring.pending[i].control) \notin CommandTypeCodes

\* C23: a TRB on the command ring whose type code is unrecognized or is not
\* a command type completes with TrbError and with exactly one completion
\* event, and a batch of such TRBs changes no slot, no address, no register
\* and not the run state.
C23_UnknownCommandIsTrbError ==
    [][(CommandDoorbellStep /\ state = "Running") =>
        LET cmds == cmd_ring.pending IN
        /\ Len(event_rings'[0].pending) = Len(event_rings[0].pending) + Len(cmds)
        /\ \A i \in 1..Len(cmds) : NotACommand(i) =>
              /\ ReportedCode(i) = TrbError
              /\ trb_type(event_rings'[0].pending[Len(event_rings[0].pending) + i])
                   = Some(CommandCompletion)
        /\ (\A i \in 1..Len(cmds) : NotACommand(i)) =>
              /\ slots' = slots
              /\ address_bitmap' = address_bitmap
              /\ op_regs' = op_regs /\ ports' = ports /\ rt_regs' = rt_regs
              /\ state' = state
      ]_vars

\* C23 witness: a doorbell-0 call on a running controller with a device
\* attached completed two TRBs, the first of unrecognized type, with TrbError
C23_Witness ==
    /\ last.op = "ring_doorbell" /\ last.args[1] = 0
    /\ state = "Running"
    /\ slots[1] # None
    /\ Len(event_rings[0].pending) = 2
    /\ completion_code(event_rings[0].pending[1]) = TrbError
    /\ completion_code(event_rings[0].pending[2]) = TrbError
    /\ event_rings[0].pending[1].parameter # event_rings[0].pending[2].parameter

\* the i-th command of the batch is an AddressDevice or a ConfigureEndpoint
\* whose slot id names no occupied slot
ForAbsentSlot(i) ==
    LET trb == cmd_ring.pending[i] IN
    /\ trb_type(trb) \in {Some(AddressDevice), Some(ConfigureEndpoint)}
    /\ (trb_slot_id(trb) >= SlotsLen \/ slots[trb_slot_id(trb)] = None)

\* C24: an AddressDevice or ConfigureEndpoint command whose slot id names an
\* unoccupied slot or lies beyond the slot table completes with
\* SlotNotEnabled, and a batch of such commands leaves the slot table and
\* the address bitmap unchanged.
C24_AbsentSlotIsSlotNotEnabled ==
    [][(CommandDoorbellStep /\ state = "Running") =>
        LET cmds == cmd_ring.pending IN
        /\ \A i \in 1..Len(cmds) : ForAbsentSlot(i) => ReportedCode(i) = SlotNotEnabled
        /\ (\A i \in 1..Len(cmds) : ForAbsentSlot(i)) =>
              /\ slots' = slots
              /\ address_bitmap' = address_bitmap
      ]_vars

\* C24 witness: with slot 1 occupied, two commands for absent slots were
\* completed with SlotNotEnabled and no address is marked
C24_Witness ==
    /\ last.op = "ring_doorbell" /\ last.args[1] = 0
    /\ state = "Running"
    /\ slots[1] # None
    /\ Len(event_rings[0].pending) = 2
    /\ completion_code(event_rings[0].pending[1]) = SlotNotEnabled
    /\ completion_code(event_rings[0].pending[2]) = SlotNotEnabled
    /\ address_bitmap = {}

\* ------------------------------------------------------------------------
\* The stray doorbell specification: doorbells that name nothing to drain
\* ------------------------------------------------------------------------
\* endpoint 1 of slot 1 (drained), endpoint 2 (no ring), endpoints 32 and 33
\* (beyond the slot's 32 rings), slot 2 (unoccupied) and slot 33 (beyond
\* the doorbell array)
StrayDoorbellInputs ==
    {<<1, 1>>, <<1, 2>>, <<1, 32>>, <<1, 33>>, <<2, 1>>, <<XHCI_MAX_SLOTS + 1, 1>>}

SubmitNoop ==
    /\ Len(cmd_ring.pending) < 1
    /\ QueueCommand(Command(Noop, 0, 4096))

SetupEndpointOne == InitSlotEpRing(1, 1, 4096, 16)

StrayDoorbell == \E d \in StrayDoorbellInputs : RingDoorbell(d[1], d[2])

NextStray ==
    AttachOne \/ SetupEndpointOne \/ SubmitTransfer \/ SubmitNoop \/ StrayDoorbell \/ Usbcmd

SpecStray == Init /\ [][NextStray]_vars

\* ring_doorbell(s, ep) names nothing to drain: s is beyond the doorbell
\* array, or slot s is unoccupied, or ep is beyond the slot's rings, or
\* endpoint ep has no transfer ring
NothingToDrain(s, ep) ==
    \/ s >= SlotsLen
    \/ s >= 1 /\ slots[s] = None
    \/ s >= 1 /\ slots[s] # None /\ ep >= 32
    \/ s >= 1 /\ slots[s] # None /\ ep < 32
             /\ Unwrap(slots[s]).transfer_rings[ep] = None

\* C25: ring_doorbell for a slot id that is out of range or unoccupied, and
\* ring_ep (reached through the doorbell) for an endpoint id that is out of
\* range or has no transfer ring, take no TRB from the command ring or from
\* any transfer ring, post no event, and leave every slot, the address
\* bitmap and the run state as they were.
C25_StrayDoorbellIsNoop ==
    [][(last'.op = "ring_doorbell" /\ NothingToDrain(last'.args[1], last'.args[2])) =>
        /\ slots' = slots
        /\ cmd_ring' = cmd_ring
        /\ event_rings' = event_rings
        /\ address_bitmap' = address_bitmap
        /\ state' = state
      ]_vars

\* C25 witness: on a running controller with a command queued and two TRBs
\* waiting on endpoint 1 of slot 1, the doorbell (1, 33) was rung
C25_Witness ==
    /\ last.op = "ring_doorbell" /\ last.args = <<1, 33>>
    /\ state = "Running"
    /\ slots[1] # None
    /\ Unwrap(slots[1]).transfer_rings[1] # None
    /\ Len(Unwrap(Unwrap(slots[1]).transfer_rings[1]).pending) = 2
    /\ Len(cmd_ring.pending) = 1

\* ------------------------------------------------------------------------
\* The register access specification: reads and writes at every kind of
\* offset, mapped and unmapped
\* ------------------------------------------------------------------------
\* XhciController::read_operational
ReadOperational(offset) ==
    /\ last' = Call("read_operational", <<offset>>,
                    RetOk(OperationalRegisters_read(op_regs, ports, offset)))
    /\ UNCHANGED <<ctrlVars, ringVars, ering, aloneVars>>

\* XhciController::capability_registers().read
ReadCapability(offset) ==
    /\ last' = Call("CapabilityRegisters::read", <<offset>>,
                    RetOk(CapabilityRegisters_read(CapabilityRegisters_new, offset)))
    /\ UNCHANGED <<ctrlVars, ringVars, ering, aloneVars>>

\* XhciController::read_runtime
ReadRuntime(offset) ==
    /\ last' = Call("read_runtime", <<offset>>,
                    RetOk(RuntimeRegisters_read(rt_regs, offset)))
    /\ UNCHANGED <<ctrlVars, ringVars, ering, aloneVars>>

\* XhciController::write_runtime
WriteRuntime(offset, value) ==
    /\ rt_regs' = RuntimeRegisters_write(rt_regs, offset, value)
    /\ last' = Call("write_runtime", <<offset, value>>, RetUnit)
    /\ UNCHANGED <<state, op_regs, ports, doorbells, slots, cmd_ring, event_rings,
                   address_bitmap, ringVars, ering, aloneVars>>

\* the offset of register reg of port n
PortOffset(n, reg) == 1024 + 16 * n + reg

\* operational offsets: USBCMD, USBSTS, PAGESIZE, DNCTRL, PORTSC of port 0;
\* a byte inside USBCMD, the gaps after CRCR and after CONFIG, the fourth
\* word of port 0 and PORTSC of the port one past the last
OperationalOffsets ==
    {0, 4, 8, 12, PortOffset(0, 0),
     1, 24, 60, PortOffset(0, 12), PortOffset(XHCI_MAX_PORTS, 0)}

OperationalWriteValues == {USBCMD_RS, PORTSC_PP + 5}

\* capability offsets: the nine registers' and three others
CapabilityOffsets == {0, 2, 4, 20, 24, 1, 32, 4096}

\* runtime offsets: those of the runtime specification and the gap between
\* MFINDEX and interrupter 0
RegisterRuntimeOffsets == RuntimeOffsets \cup {4, 28}

ReadOperationalRegister == \E offset \in OperationalOffsets : ReadOperational(offset)

WriteOperationalRegister ==
    \E offset \in OperationalOffsets, value \in OperationalWriteValues :
        WriteOperational(offset, value)

ReadCapabilityRegister == \E offset \in CapabilityOffsets : ReadCapability(offset)

ReadControllerRuntime == \E offset \in RegisterRuntimeOffsets : ReadRuntime(offset)

WriteControllerRuntime ==
    \E offset \in RegisterRuntimeOffsets : WriteRuntime(offset, IMAN_IP + IMAN_IE)

ReadRuntimeBank == \E offset \in RegisterRuntimeOffsets : RuntimeRead(offset)

WriteRuntimeBank ==
    \E offset \in RegisterRuntimeOffsets, value \in {IMAN_IE, IMAN_IP + IMAN_IE} :
        RuntimeWrite(offset, value)

NextRegisters ==
    \/ ReadOperationalRegister \/ WriteOperationalRegister \/ ReadCapabilityRegister
    \/ ReadControllerRuntime \/ WriteControllerRuntime
    \/ ReadRuntimeBank \/ WriteRuntimeBank

SpecRegisters == Init /\ [][NextRegisters]_vars

\* the operational offsets that select a register: the seven of the bank
\* and the three of each existing port
OperationalMapped(offset) ==
    \/ offset \in {0, 4, 8, 12, 56} \cup (16..23) \cup (48..55)
    \/ /\ offset >= 1024
       /\ (offset - 1024) \div 16 < XHCI_MAX_PORTS
       /\ (offset - 1024) % 16 \in {0, 4, 8}

\* the runtime offsets that select a register of the bank rt: MFINDEX and
\* the five of each existing interrupter
RuntimeMapped(rt, offset) ==
    \/ offset = 0
    \/ /\ offset >= 32
       /\ (offset - 32) \div 32 < Len(rt.interrupters)
       /\ (offset - 32) % 32 \in {0, 4, 8, 16, 24}

CapabilityMapped(offset) == offset \in {0, 2, 4, 8, 12, 16, 20, 24, 28}

\* C26: a read at an offset that selects no register (a port index or an
\* interrupter index past the last included) returns 0, and a write at such
\* an offset, like a write to MFINDEX, changes no register and not the
\* controller state.
C26_UnmappedAccessIsHarmless ==
    [][LET offset == last'.args[1] IN
       /\ (last'.op = "read_operational" /\ ~OperationalMapped(offset))
            => last'.ret = RetOk(0)
       /\ (last'.op = "CapabilityRegisters::read" /\ ~CapabilityMapped(offset))
            => last'.ret = RetOk(0)
       /\ (last'.op = "read_runtime" /\ ~RuntimeMapped(rt_regs, offset))
            => last'.ret = RetOk(0)
       /\ (last'.op = "RuntimeRegisters::read" /\ ~RuntimeMapped(runtime, offset))
            => last'.ret = RetOk(0)
       /\ (last'.op = "write_operational" /\ ~OperationalMapped(offset))
            => UNCHANGED ctrlVars
       /\ (last'.op = "write_runtime" /\ (offset = 0 \/ ~RuntimeMapped(rt_regs, offset)))
            => UNCHANGED ctrlVars
       /\ (last'.op = "RuntimeRegisters::write"
             /\ (offset = 0 \/ ~RuntimeMapped(runtime, offset)))
            => runtime' = runtime
       /\ last'.op \in {"read_operational", "CapabilityRegisters::read", "read_runtime",
                        "RuntimeRegisters::read"}
            => UNCHANGED <<ctrlVars, runtime>>
      ]_vars

\* C26 witness: on a running controller whose port 0 and whose stand-alone
\* interrupter 0 hold written values, MFINDEX of the stand-alone bank was
\* written with a non-zero value
C26_Witness ==
    /\ last.op = "RuntimeRegisters::write" /\ last.args = <<0, IMAN_IP + IMAN_IE>>
    /\ state = "Running"
    /\ ports[0].portsc # 0
    /\ op_regs.dnctrl # 0
    /\ runtime.interrupters[1].iman # 0

\* ------------------------------------------------------------------------
\* The ring initialisation specification: stand-alone rings being set up
\* ------------------------------------------------------------------------
\* CommandRing::init
CRingInit(base, size) ==
    /\ cring' = CommandRing_init(cring, base, size)
    /\ last' = Call("CommandRing::init", <<base, size>>, RetUnit)
    /\ UNCHANGED <<ctrlVars, aloneVars, tring, ering, submitted, returned, threads>>

\* TransferRing::init
TRingInit(base, size) ==
    /\ tring' = TransferRing_init(tring, base, size)
    /\ last' = Call("TransferRing::init", <<base, size>>, RetUnit)
    /\ UNCHANGED <<ctrlVars, aloneVars, cring, ering, submitted, returned, threads>>

\* the null base and two ring addresses; the empty size and two ring sizes
RingBaseInputs == {0, 4096, 8192}
RingSizeInputs == {0, 16, 256}

InitCommandRing == \E base \in RingBaseInputs, size \in RingSizeInputs : CRingInit(base, size)

InitTransferRing == \E base \in RingBaseInputs, size \in RingSizeInputs : TRingInit(base, size)

NextRingInit == InitCommandRing \/ InitTransferRing

SpecRingInit == Init /\ [][NextRingInit]_vars

\* C27 (as claimed): CommandRing::init and TransferRing::init with size 0 or
\* with base address 0 leave the ring as it was: base, size, cursors, cycle
\* state and, for the command ring, the run state.
C27_NullRingRejected ==
    [][(/\ last'.op \in {"CommandRing::init", "TransferRing::init"}
        /\ (last'.args[1] = 0 \/ last'.args[2] = 0))
       => /\ cring' = cring
          /\ tring' = tring
      ]_vars

\* ------------------------------------------------------------------------
\* The endpoint halt specification: a stand-alone slot whose endpoints are
\* stopped and reset while transfers wait
\* ------------------------------------------------------------------------
\* the guest producer: TransferRing::queue on an endpoint ring of the slot
DSlotQueueTransfer(ep_id, trb) ==
    /\ dslot.transfer_rings[ep_id] # None
    /\ dslot' = [dslot EXCEPT !.transfer_rings[ep_id] =
                    Some(TransferRing_queue(Unwrap(@), trb))]
    /\ last' = Call("TransferRing::queue", <<ep_id>>, RetUnit)
    /\ UNCHANGED <<ctrlVars, ringVars, ering, runtime, codec>>

HaltEndpoints == {1, 2}

HaltCommandInputs ==
    {EndpointCommand(t, ep_id, 4096) :
        t \in {StopEndpoint, ResetEndpoint}, ep_id \in HaltEndpoints}

InitHaltEndpoint ==
    \E ep_id \in HaltEndpoints :
        dslot.transfer_rings[ep_id] = None /\ DSlotInitEpRing(ep_id, 4096, 16)

SubmitHaltTransfer ==
    \E ep_id \in HaltEndpoints, trb \in TransferInputs :
        /\ dslot.transfer_rings[ep_id] # None
        /\ Len(Unwrap(dslot.transfer_rings[ep_id]).pending) < MaxTransfers
        /\ DSlotQueueTransfer(ep_id, trb)

HaltCommand == \E trb \in HaltCommandInputs : DSlotHandleCommand(trb)

RingHaltEndpoint == \E ep_id \in HaltEndpoints : DSlotRingEp(ep_id)

NextHalt == InitHaltEndpoint \/ SubmitHaltTransfer \/ HaltCommand \/ RingHaltEndpoint

SpecHalt == Init /\ [][NextHalt]_vars

\* C29 (as claimed): the ring_ep call that follows a completed StopEndpoint
\* or ResetEndpoint command for the same endpoint takes no TRB from that
\* endpoint's transfer ring, and the command itself leaves the event rings
\* as they were.
C29_StoppedEndpointNotDrained ==
    [][/\ (/\ last.op = "XhciDeviceSlot::handle_command"
           /\ last.args[1] \in {StopEndpoint, ResetEndpoint}
           /\ last.ret = RetOk(Success)
           /\ last'.op = "XhciDeviceSlot::ring_ep"
           /\ last'.args[1] = last.args[2])
          => dslot'.transfer_rings[last.args[2]] = dslot.transfer_rings[last.args[2]]
       /\ (/\ last'.op = "XhciDeviceSlot::handle_command"
           /\ last'.args[1] \in {StopEndpoint, ResetEndpoint})
          => event_rings' = event_rings
      ]_vars

\* ------------------------------------------------------------------------
\* The event ring dequeue specification: the guest moves the dequeue
\* pointer of a stand-alone EventRing while events are queued
\* ------------------------------------------------------------------------
\* EventRing::set_dequeue_ptr
ERingSetDequeuePtr(ptr) ==
    /\ ering' = EventRing_set_dequeue_ptr(ering, ptr)
    /\ last' = Call("EventRing::set_dequeue_ptr", <<ptr>>, RetUnit)
    /\ UNCHANGED <<ctrlVars, aloneVars, ringVars>>

\* the single-segment tables of sizes 1..MaxSegSize and a table of two
\* segments
SegmentTableInputs ==
    {<<EventRingSegment_new(131072, size)>> : size \in 1..MaxSegSize}
    \cup {<<EventRingSegment_new(131072, 2), EventRingSegment_new(262144, 1)>>}

\* the slots of the segment at 131072, the segment at 262144, and an
\* address in no segment
DequeuePtrInputs ==
    {131072 + i * TRB_SIZE : i \in 0..(MaxSegSize - 1)} \cup {262144, 0}

InstallSegmentTable ==
    \E segments \in SegmentTableInputs :
        ering.pending = <<>> /\ ERingSetSegments(segments)

MoveDequeuePtr == \E ptr \in DequeuePtrInputs : ERingSetDequeuePtr(ptr)

NextDequeue == InstallSegmentTable \/ MoveDequeuePtr \/ QueueEvent

SpecDequeue == Init /\ [][NextDequeue]_vars

\* the events the producer has placed in the current segment: the newest
\* events that carry the ring's present producer cycle bit
RECURSIVE SameCycleTail(_, _)
SameCycleTail(pending, cycle) ==
    IF pending = <<>> \/ cycle_bit(pending[Len(pending)]) # cycle THEN 0
    ELSE 1 + SameCycleTail(SubSeq(pending, 1, Len(pending) - 1), cycle)

\* C30 (as claimed): an EventRing::queue call changes the current segment
\* index or the producer cycle bit only when the event it queued filled the
\* last slot of the current segment, whatever dequeue pointer was set; then
\* it moves to the next segment, wrapping, and flips the bit.
C30_AdvanceOnlyWhenSegmentFilled ==
    [][(last'.op = "EventRing::queue" /\ ering.segment_idx < Len(ering.segments)) =>
        LET segment == ering.segments[ering.segment_idx + 1]
            filled == SameCycleTail(ering.pending, ering.cycle) + 1 = segment.size
        IN  IF filled
            THEN /\ ering'.segment_idx = (ering.segment_idx + 1) % Len(ering.segments)
                 /\ ering'.cycle = ~ering.cycle
            ELSE /\ ering'.segment_idx = ering.segment_idx
                 /\ ering'.cycle = ering.cycle
      ]_vars

\* ------------------------------------------------------------------------
\* Interleaved calls under the controller specification
\* ------------------------------------------------------------------------
\* Every XhciController method that changes state takes &mut self, so two
\* calls on one controller never overlap, whichever threads issue them: a
\* behaviour of the controller specification is an interleaving of whole
\* calls.
\* the parameters of a sequence of TRBs, in order
Parameters(trbs) == [i \in 1..Len(trbs) |-> trbs[i].parameter]

ERingDequeuePtr ==
    /\ last' = Call("EventRing::dequeue_ptr", <<>>, RetOk(EventRing_dequeue_ptr(ering)))
    /\ UNCHANGED <<ctrlVars, aloneVars, ringVars, ering>>

\* one segment; two segments that overlap in [131088, 131104); one segment
\* whose base is not a multiple of the TRB size; two segments apart; no
\* segment
PtrTableInputs ==
    {<<>>, <<EventRingSegment_new(131072, 3)>>,
     <<EventRingSegment_new(131072, 2), EventRingSegment_new(131088, 2)>>,
     <<EventRingSegment_new(131080, 2)>>,
     <<EventRingSegment_new(131072, 1), EventRingSegment_new(262144, 2)>>}

\* addresses at and inside slots of the segments above, and outside them
PtrInputs ==
    {0, 131072, 131080, 131088, 131092, 131100, 131104, 131108, 131120,
     262144, 262164, 262176}

InstallPtrTable == \E segments \in PtrTableInputs : ERingSetSegments(segments)

SetDequeuePtr == \E ptr \in PtrInputs : ERingSetDequeuePtr(ptr)

NextDequeuePtr == InstallPtrTable \/ SetDequeuePtr \/ ERingDequeuePtr

SpecDequeuePtr == Init /\ [][NextDequeuePtr]_vars

\* segment idx (from 0) of the ring's table contains the address ptr
SegmentContains(idx, ptr) ==
    LET segment == ering.segments[idx + 1] IN
    ptr >= segment.base /\ ptr < segment.base + TRB_SIZE * segment.size

\* the step is a set_dequeue_ptr call whose pointer lies in some segment
PtrInsideStep ==
    /\ last'.op = "EventRing::set_dequeue_ptr"
    /\ \E idx \in 0..(Len(ering.segments) - 1) : SegmentContains(idx, last'.args[1])

\* the first segment, in table order, that contains ptr
FirstSegment(ptr) ==
    CHOOSE idx \in 0..(Len(ering.segments) - 1) :
        /\ SegmentContains(idx, ptr)
        /\ \A j \in 0..(idx - 1) : ~SegmentContains(j, ptr)

\* C31 (corrected): set_dequeue_ptr(ptr) with ptr inside a segment sets the
\* position to the first segment in table order that contains ptr and to
\* slot (ptr - base) / 16, after which dequeue_ptr() returns the address of
\* that slot, base + 16 * slot: ptr rounded down to a slot boundary counted
\* from the segment base, which is a 16-byte boundary only when the base is
\* one.  With ptr outside every segment the segment index and the slot
\* index are left unchanged.
C31_SetDequeuePtrResolvesSlot ==
    [][(last'.op = "EventRing::set_dequeue_ptr") =>
        LET ptr == last'.args[1] IN
        IF PtrInsideStep
        THEN LET idx == FirstSegment(ptr)
                 base == ering.segments[idx + 1].base
             IN  /\ ering'.segment_idx = idx
                 /\ ering'.dequeue_idx = (ptr - base) \div TRB_SIZE
                 /\ EventRing_dequeue_ptr(ering') = ptr - ((ptr - base) % TRB_SIZE)
                 /\ (base % TRB_SIZE = 0) =>
                        EventRing_dequeue_ptr(ering') = ptr - (ptr % TRB_SIZE)
        ELSE /\ ering'.segment_idx = ering.segment_idx
             /\ ering'.dequeue_idx = ering.dequeue_idx
      ]_vars

\* C31 witness: the pointer 131092 was set on the table of two overlapping
\* segments, both of which contain it, and resolved to slot 1 of the first
C31_Witness ==
    /\ last.op = "EventRing::set_dequeue_ptr" /\ last.args = <<131092>>
    /\ Len(ering.segments) = 2
    /\ ering.segments[2].base = 131088
    /\ ering.segment_idx = 0
    /\ ering.dequeue_idx = 1
    /\ EventRing_dequeue_ptr(ering) = 131088

\* C31 (as claimed): after set_dequeue_ptr(ptr) with ptr inside a segment,
\* dequeue_ptr() returns ptr rounded down to a 16-byte boundary.
C31_DequeuePtrRoundedTo16 ==
    [][PtrInsideStep =>
        EventRing_dequeue_ptr(ering') = last'.args[1] - (last'.args[1] % TRB_SIZE)
      ]_vars

\* ------------------------------------------------------------------------
\* The dequeue resynchronisation specification: SetTrDequeue among the
\* other commands and ring operations of a stand-alone slot
\* ------------------------------------------------------------------------
\* TransferRing::create_transfer_event on an endpoint ring of the slot; the
\* call record keeps the status word of the event built
DSlotCreateTransferEvent(ep_id, trb, code, length) ==
    /\ dslot.transfer_rings[ep_id] # None
    /\ last' = Call("TransferRing::create_transfer_event", <<ep_id, code, length>>,
                    RetOk(TransferRing_create_transfer_event(
                            Unwrap(dslot.transfer_rings[ep_id]), trb, code, length).status))
    /\ UNCHANGED <<ctrlVars, ringVars, ering, aloneVars>>

\* SetTrDequeue for endpoints 1 and 2 and for endpoint 3, which never gets a
\* ring, with cycle bit set and clear; and commands of four other types
ResyncCommandInputs ==
    {EndpointCommand(SetTrDequeue, ep_id, p) : ep_id \in {1, 2, 3}, p \in {8193, 12302}}
    \cup {EndpointCommand(t, 1, 8193) :
            t \in {AddressDevice, ConfigureEndpoint, StopEndpoint, Noop}}

ResyncCommand == \E trb \in ResyncCommandInputs : DSlotHandleCommand(trb)

ResyncTransferEvent ==
    \E ep_id \in HaltEndpoints :
        DSlotCreateTransferEvent(ep_id, Trb_new(4096, 8, Normal * Pow2(10) + 1), Success, 8)

NextResync ==
    \/ InitHaltEndpoint \/ SubmitHaltTransfer \/ RingHaltEndpoint
    \/ ResyncCommand \/ ResyncTransferEvent

SpecResync == Init /\ [][NextResync]_vars

\* the step is a SetTrDequeue command for endpoint ep
SetTrDequeueStep(ep) ==
    /\ last'.op = "XhciDeviceSlot::handle_command"
    /\ last'.args[1] = SetTrDequeue
    /\ last'.args[2] = ep

\* C32: a SetTrDequeue command for an endpoint with an initialised transfer
\* ring returns Success and sets that ring's dequeue pointer to the command
\* parameter with its low 4 bits cleared and its consumer cycle state to bit
\* 0 of the parameter, leaving the rest of that ring and every other ring
\* as they were; and no step other than a SetTrDequeue command for that
\* endpoint or init_ep_ring changes a ring's dequeue pointer or consumer
\* cycle state.
C32_SetTrDequeueResynchronizes ==
    [][\A ep \in 0..31 :
        LET old == dslot.transfer_rings[ep]
            new == dslot'.transfer_rings[ep]
        IN  (old # None) =>
              IF SetTrDequeueStep(ep)
              THEN /\ last'.ret = RetOk(Success)
                   /\ new = Some([Unwrap(old) EXCEPT
                                    !.dequeue = last'.args[3] - (last'.args[3] % 16),
                                    !.ccs = (last'.args[3] % 2 = 1)])
                   /\ \A other \in (0..31) \ {ep} :
                          dslot'.transfer_rings[other] = dslot.transfer_rings[other]
              ELSE (last'.op # "XhciDeviceSlot::init_ep_ring") =>
                    /\ new # None
                    /\ Unwrap(new).dequeue = Unwrap(old).dequeue
                    /\ Unwrap(new).ccs = Unwrap(old).ccs
      ]_vars

\* C32 witness: SetTrDequeue with parameter 12302 was handled for endpoint 1,
\* whose ring holds two TRBs, after endpoint 2 had been moved to 8192
C32_Witness ==
    /\ last.op = "XhciDeviceSlot::handle_command"
    /\ last.args = <<SetTrDequeue, 1, 12302>>
    /\ dslot.transfer_rings[1] # None /\ dslot.transfer_rings[2] # None
    /\ Unwrap(dslot.transfer_rings[1]).dequeue = 12288
    /\ ~Unwrap(dslot.transfer_rings[1]).ccs
    /\ Len(Unwrap(dslot.transfer_rings[1]).pending) = 2
    /\ Unwrap(dslot.transfer_rings[2]).dequeue = 8192

\* ------------------------------------------------------------------------
\* Properties of USBSTS under the operational register specification
\* ------------------------------------------------------------------------
\* the write-1-to-clear status bits
StatusW1cBits == {USBSTS_EINT, USBSTS_PCD, USBSTS_SRE, USBSTS_HCE}

\* C33 (as claimed): a USBCMD write without the reset bit that toggles the
\* run/stop bit changes no USBSTS bit other than the halted-status bit, and
\* every write-1-to-clear status bit set before the write is set after it.
C33_RunStopChangesOnlyHalted ==
    [][(/\ UsbcmdWriteStep
        /\ BitAnd(last'.args[2], USBCMD_HCRST) = 0
        /\ BitAnd(BitXor(last'.args[2], op_regs.usbcmd), USBCMD_RS) # 0)
       => /\ BitClear(op_regs'.usbsts, USBSTS_HCH) = BitClear(op_regs.usbsts, USBSTS_HCH)
          /\ \A b \in StatusW1cBits :
                 BitAnd(op_regs.usbsts, b) # 0 => BitAnd(op_regs'.usbsts, b) # 0
      ]_vars

\* every combination of the six USBSTS bits the code names
RECURSIVE SumOf(_)
SumOf(S) == IF S = {} THEN 0 ELSE LET x == CHOOSE y \in S : TRUE IN x + SumOf(S \ {x})

StatusWords == {SumOf(S) : S \in SUBSET (StatusW1cBits \cup {USBSTS_HCH, USBSTS_CNR})}

\* values written to USBSTS: every combination of the write-1-to-clear
\* bits, alone and together with HCH and CNR
StatusWriteValues ==
    {SumOf(S) : S \in SUBSET StatusW1cBits}
    \cup {USBSTS_HCH + USBSTS_CNR, SumOf(StatusW1cBits) + USBSTS_HCH + USBSTS_CNR}

\* the step is a USBSTS write
UsbstsWriteStep == last'.op = "write_operational" /\ last'.args[1] = 4

\* what the claim says a write of value leaves in a status word current
UsbstsAfterWrite(current, value) ==
    current - SumOf({b \in StatusW1cBits : BitAnd(current, b) # 0 /\ BitAnd(value, b) # 0})

\* C34: a write to USBSTS clears exactly those of the bits EINT, PCD, SRE,
\* HCE that are written as 1, leaves every other bit as it was (so it sets
\* no bit and does not change HCH or CNR), and does not change the run
\* state; this holds for the status word the controller holds and for
\* every other content of the status word.
C34_UsbstsWriteOneToClear ==
    [][UsbstsWriteStep =>
        /\ op_regs'.usbsts = UsbstsAfterWrite(op_regs.usbsts, last'.args[2])
        /\ state' = state
        /\ [op_regs' EXCEPT !.usbsts = 0] = [op_regs EXCEPT !.usbsts = 0]
        /\ \A current \in StatusWords, value \in StatusWriteValues :
              LET r == OperationalRegisters_write([op_regs EXCEPT !.usbsts = current],
                                                  ports, state, 4, value)
              IN  /\ r.op.usbsts = UsbstsAfterWrite(current, value)
                  /\ r.state = state
      ]_vars

\* C34 witness: on a running controller, whose status word is CNR alone,
\* USBSTS was written with the EINT and HCH bits set
C34_Witness ==
    /\ last.op = "write_operational" /\ last.args = <<4, USBSTS_EINT + USBSTS_HCH>>
    /\ state = "Running"
    /\ op_regs.usbsts = USBSTS_CNR

\* ------------------------------------------------------------------------
\* Properties of the controller's runtime bank under the register access
\* specification
\* ------------------------------------------------------------------------
\* offset is that of the IMOD, ERSTSZ, ERSTBA or ERDP register of one of
\* the controller's XHCI_MAX_INTRS interrupters
PlainInterrupterRegister(offset) ==
    \E n \in 0..(XHCI_MAX_INTRS - 1), reg \in {4, 8, 16, 24} :
        offset = InterrupterOffset(n, reg)

\* C35 (as claimed): the controller's runtime bank holds one interrupter
\* register set per interrupter, and a read_runtime that follows a
\* write_runtime to the IMOD, ERSTSZ, ERSTBA or ERDP register of an
\* interrupter at the same offset returns the value written.
C35_InterrupterRegistersReadBack ==
    [][/\ Len(rt_regs.interrupters) = XHCI_MAX_INTRS
       /\ (/\ last.op = "write_runtime"
           /\ last'.op = "read_runtime"
           /\ last'.args[1] = last.args[1]
           /\ PlainInterrupterRegister(last.args[1]))
          => last'.ret = RetOk(last.args[2])
      ]_vars

\* ------------------------------------------------------------------------
\* The transfer event specification: create_transfer_event on a
\* stand-alone TransferRing
\* ------------------------------------------------------------------------
\* TransferRing::create_transfer_event; the event built is kept in codec.trb
TRingCreateTransferEvent(trb, code, length) ==
    /\ codec' = [codec EXCEPT !.trb =
                    TransferRing_create_transfer_event(tring, trb, code, length)]
    /\ last' = Call("TransferRing::create_transfer_event", <<code, length>>, RetUnit)
    /\ UNCHANGED <<ctrlVars, ringVars, ering, dslot, runtime>>

\* CompletionCode: Success, TrbError, Stalled, ShortPacket, SplitTransaction
EventCodeInputs == {Success, TrbError, 6, 13, 36}

\* lengths that fit the 17-bit field (the largest is 2^17 - 1), lengths that
\* reach bits 17..23, and lengths that reach the completion-code byte
EventLengthInputs ==
    {0, 1, 8, 16, 1024, Pow2(17) - 1,
     Pow2(17), Pow2(20) + 5,
     Pow2(24), Pow2(25), Pow2(24) + Pow2(25) + 7}

CreateTransferEvent ==
    \E trb \in RingTrbs, code \in EventCodeInputs, length \in EventLengthInputs :
        TRingCreateTransferEvent(trb, code, length)

NextTransferEvent == CreateTransferEvent

SpecTransferEvent == Init /\ [][NextTransferEvent]_vars

\* C36 (as claimed): the TRB create_transfer_event builds has the type
\* TransferEvent, its completion code reads back as the code given whatever
\* the length, and its transfer length reads back as the length given when
\* the length fits the 17-bit field.
C36_TransferEventKeepsCode ==
    [][(last'.op = "TransferRing::create_transfer_event") =>
        LET code == last'.args[1]
            length == last'.args[2]
            event == codec'.trb
        IN  /\ trb_type(event) = Some(TransferEvent)
            /\ completion_code(event) = code
            /\ (length < Pow2(17)) => transfer_length(event) = length
      ]_vars

\* ------------------------------------------------------------------------
\* The address bitmap against the slot table, under the controller
\* specification
\* ------------------------------------------------------------------------
\* the nonzero device addresses held by occupied slots
HeldAddresses ==
    {Slot_address(Unwrap(slots[i])) : i \in Occupied} \ {0}

\* C37 (as claimed): in every reachable state the addresses marked in the
\* address bitmap are exactly the nonzero device addresses held by occupied
\* slots.
C37_BitmapMatchesSlots == address_bitmap = HeldAddresses

\* ------------------------------------------------------------------------
\* The run state against the registers, under the operational register
\* specification
\* ------------------------------------------------------------------------
\* OperationalRegisters::is_running: the stored run/stop bit
OperationalRegisters_is_running(op) == BitAnd(op.usbcmd, USBCMD_RS) # 0

\* C38 (as claimed): in every reachable state the controller state is
\* Running exactly when the stored USBCMD run/stop bit is 1 and exactly when
\* the USBSTS halted-status bit is 0.
C38_RunStateMatchesRegisters ==
    /\ (state = "Running") <=> OperationalRegisters_is_running(op_regs)
    /\ (state = "Running") <=> (BitAnd(op_regs.usbsts, USBSTS_HCH) = 0)

\* ------------------------------------------------------------------------
\* The segment table specification: a stand-alone EventRing given any
\* segment table, in any build
\* ------------------------------------------------------------------------
\* EventRing::queue; a panic is recorded as the call's result
ERingQueueAnyTable(event) ==
    \E o \in EventRing_queue_outcomes(ering, event) :
        /\ ering' = o.ring
        /\ last' = Call("EventRing::queue", <<>>,
                        IF o.panic THEN RetErr("panic") ELSE RetOk(1))
        /\ UNCHANGED <<ctrlVars, aloneVars, ringVars>>

\* no segment; one segment of size 0; one of size 1; two segments the
\* second of which has size 0; two segments of sizes 2 and 1
AnyTableInputs ==
    {<<>>, <<EventRingSegment_new(131072, 0)>>, <<EventRingSegment_new(131072, 1)>>,
     <<EventRingSegment_new(131072, 1), EventRingSegment_new(262144, 0)>>,
     <<EventRingSegment_new(131072, 2), EventRingSegment_new(262144, 1)>>}

InstallAnyTable == \E segments \in AnyTableInputs : ERingSetSegments(segments)

QueueAnyTable ==
    \E event \in EventInputs :
        /\ Len(ering.pending) < MaxEvents
        /\ ERingQueueAnyTable(event)

NextAnyTable == InstallAnyTable \/ MoveDequeuePtr \/ QueueAnyTable

SpecAnyTable == Init /\ [][NextAnyTable]_vars

\* C39 (as claimed): for every segment table installed, an empty one and
\* one with a segment of size 0 included, EventRing::queue returns without
\* a panic, and afterwards the current segment index is below the number of
\* segments when the table is not empty.
C39_QueueNeverPanics ==
    [][(last'.op = "EventRing::queue") =>
        /\ last'.ret.ok
        /\ (ering'.segments # <<>>) => ering'.segment_idx < Len(ering'.segments)
      ]_vars

\* ------------------------------------------------------------------------
\* SpecLocks: two vCPU threads and an input thread on one controller, one
\* slot outside the table and two HID devices
\* ------------------------------------------------------------------------
Held(t) == {l \in Locks : threads.owner[l] = t}
Active(t) == threads.at[t].op # "idle" /\ threads.at[t].pc <= Len(threads.at[t].prog)
Instr(t) == threads.at[t].prog[threads.at[t].pc]
\* a table slot that `if let Some(ref slot) = self.slots[..]` does not find
Absent(l) ==
    \E slot_id \in LockSlots : l = SlotLock(slot_id) /\ slot_id \notin threads.present
Advance(t, n) == [threads.at EXCEPT ![t].pc = @ + n]
lockRest == <<ctrlVars, cring, tring, submitted, returned, ering, aloneVars>>

ThreadCall(t, op, prog) ==
    /\ threads.at[t] = Idle
    /\ threads' = [threads EXCEPT !.at[t] = [op |-> op, prog |-> prog, pc |-> 1]]
    /\ last' = Call(op, <<t>>, RetUnit)
    /\ UNCHANGED lockRest

CommandLockInputs ==
    {[ty |-> ty, slot_id |-> 1] : ty \in {AddressDevice, DisableSlot, ResetDevice}}
RECURSIVE BatchesOf(_)
BatchesOf(n) ==
    IF n = 0 THEN {<<>>}
    ELSE {<<c>> \o rest : c \in CommandLockInputs, rest \in BatchesOf(n - 1)}
BatchLockInputs == UNION {BatchesOf(n) : n \in 0..MaxBatch}

CallRingDoorbell ==
    \E t \in VcpuThreads, slot_id \in LockSlots :
        ThreadCall(t, "ring_doorbell", ring_doorbell_locks(slot_id))
CallCommandDoorbell ==
    \E t \in VcpuThreads, cmds \in BatchLockInputs :
        ThreadCall(t, "process_command_ring", process_command_ring_locks(cmds))
CallDetach ==
    \E t \in VcpuThreads, slot_id \in LockSlots :
        ThreadCall(t, "detach_device", detach_device_locks(slot_id))
CallAttach ==
    \E t \in VcpuThreads : ThreadCall(t, "attach_device", attach_device_locks)
CallSlotCommand ==
    \E t \in VcpuThreads, ty \in {ResetDevice, StopEndpoint} :
        ThreadCall(t, "Slot_handle_command", Slot_handle_command_locks(ty))
CallInject ==
    \E t \in InputThreads, device \in {"keyboard", "mouse"} :
        ThreadCall(t, "inject", inject_locks(device))

\* Mutex::lock, and the entry into a &mut self method of the controller
Acquire ==
    \E t \in Threads :
        /\ Active(t)
        /\ Instr(t).k = "acq"
        /\ ~Absent(Instr(t).l)
        /\ threads.owner[Instr(t).l] = Unlocked
        /\ threads' = [threads EXCEPT !.owner[Instr(t).l] = t, !.at = Advance(t, 1)]
        /\ last' = Call("lock", <<t, Instr(t).l>>, RetUnit)
        /\ UNCHANGED lockRest

\* the if-let on an empty table entry: neither the lock nor its body runs
SkipAbsent ==
    \E t \in Threads :
        /\ Active(t)
        /\ Instr(t).k = "acq"
        /\ Absent(Instr(t).l)
        /\ threads' = [threads EXCEPT !.at = Advance(t, 2)]
        /\ last' = Call("none", <<t, Instr(t).l>>, RetUnit)
        /\ UNCHANGED lockRest

\* the guard is dropped, or the &mut self method returns
Release ==
    \E t \in Threads :
        /\ Active(t)
        /\ Instr(t).k = "rel"
        /\ threads.owner[Instr(t).l] = t
        /\ threads' = [threads EXCEPT !.owner[Instr(t).l] = Unlocked,
                                      !.at = Advance(t, 1)]
        /\ last' = Call("unlock", <<t, Instr(t).l>>, RetUnit)
        /\ UNCHANGED lockRest

\* a write to self.slots under the controller
UpdateTable ==
    \E t \in Threads :
        /\ Active(t)
        /\ Instr(t).k \in {"clear", "fill"}
        /\ threads.owner["controller"] = t
        /\ LET free == LockSlots \ threads.present
               present ==
                   IF Instr(t).k = "clear"
                   THEN {i \in threads.present : SlotLock(i) # Instr(t).l}
                   ELSE IF free = {} THEN threads.present
                   ELSE threads.present
                        \cup {CHOOSE i \in free : \A j \in free : i <= j}
           IN threads' = [threads EXCEPT !.present = present, !.at = Advance(t, 1)]
        /\ last' = Call(Instr(t).k, <<t>>, RetUnit)
        /\ UNCHANGED lockRest

ThreadReturn ==
    \E t \in Threads :
        /\ threads.at[t].op # "idle"
        /\ ~Active(t)
        /\ threads' = [threads EXCEPT !.at[t] = Idle]
        /\ last' = Call("return", <<t>>, RetUnit)
        /\ UNCHANGED lockRest

NextLocks ==
    \/ CallRingDoorbell \/ CallCommandDoorbell \/ CallDetach \/ CallAttach
    \/ CallSlotCommand \/ CallInject
    \/ Acquire \/ SkipAbsent \/ Release \/ UpdateTable \/ ThreadReturn

SpecLocks == Init /\ [][NextLocks]_vars

\* thread t stands at a lock() of l that it will really perform
Requests(t, l) == Active(t) /\ Instr(t).k = "acq" /\ Instr(t).l = l /\ ~Absent(l)
LockOrder ==
    \A t \in Threads :
        /\ \A h1 \in Held(t), h2 \in Held(t) : h1 # h2 => LockRank(h1) # LockRank(h2)
        /\ \A l \in Locks :
               Requests(t, l) => \A h \in Held(t) : LockRank(h) < LockRank(l)
\* a set of threads each of which waits for a lock owned inside the set
Deadlocked ==
    \E S \in (SUBSET Threads) \ {{}} :
        \A t \in S : \E l \in Locks : Requests(t, l) /\ threads.owner[l] \in S

\* C40: locks are taken in the order controller, slot, device - a thread that
\* owns a device lock asks for no slot and no controller, one that owns a slot
\* asks for no controller - and no interleaving of endpoint doorbells, command
\* batches, detach and attach, a slot's ResetDevice and the input thread's
\* report queuing leaves a set of threads waiting for each other
C40_LockOrderNoDeadlock == LockOrder /\ ~Deadlocked

\* a slot's ResetDevice waits for the keyboard the input thread has locked,
\* while the other vCPU thread is inside the controller with slot 1 locked
C40_Witness ==
    \E t \in VcpuThreads, u \in VcpuThreads :
        /\ threads.owner["dslot"] = t
        /\ Requests(t, "keyboard")
        /\ threads.owner["keyboard"] = "input"
        /\ threads.owner["controller"] = u
        /\ threads.owner["slot1"] = u

====
